---- MODULE Spec2Model ----
(***************************************************************************)
(* Exact Shapley attribution over a decomposable, deterministic circuit:   *)
(* a model of src/src/shap/compute_shap.py (compute_shap_scores, the DP    *)
(* engine compute_shap_algorithm and the subset-enumeration oracle         *)
(* shap_exact_subset_enum).                                                *)
(*                                                                         *)
(* Numbers.  The program computes in binary floating point.  The model     *)
(* computes the same expressions over exact rationals <<num, den>> in      *)
(* lowest terms, so it describes the real-number value of every float      *)
(* expression of the program; rounding error is not modelled.              *)
(***************************************************************************)
EXTENDS Integers, Sequences, FiniteSets, TLC

\* ------------------------------------------------------------------------
\* Bounds of the model
\* ------------------------------------------------------------------------

\* Marginal probabilities are drawn from the grid {0/PDen, ..., PDen/PDen}.
PDen == 2

\* ------------------------------------------------------------------------
\* Exact rational arithmetic (the values of the program's float expressions)
\* ------------------------------------------------------------------------

Abs(i) == IF i < 0 THEN -i ELSE i

RECURSIVE GCD(_, _)
GCD(a, b) == IF b = 0 THEN a ELSE GCD(b, a % b)

\* The rational n/d (d # 0) in lowest terms with a positive denominator.
Rat(n, d) ==
    LET g == GCD(Abs(n), Abs(d))
        s == IF d < 0 THEN -1 ELSE 1
    IN  <<s * (n \div g), s * (d \div g)>>

RInt(i) == <<i, 1>>
RZero == <<0, 1>>
ROne == <<1, 1>>
RAdd(a, b) == Rat(a[1] * b[2] + b[1] * a[2], a[2] * b[2])
RSub(a, b) == Rat(a[1] * b[2] - b[1] * a[2], a[2] * b[2])
RMul(a, b) == Rat(a[1] * b[1], a[2] * b[2])
RAbs(a) == <<Abs(a[1]), a[2]>>
RLeq(a, b) == a[1] * b[2] <= b[1] * a[2]
RMax(a, b) == IF RLeq(a, b) THEN b ELSE a

\* Sum of f[lo] .. f[hi], added in increasing index order (0 when hi < lo).
RECURSIVE RSum(_, _, _)
RSum(f, lo, hi) == IF hi < lo THEN RZero ELSE RAdd(RSum(f, lo, hi - 1), f[hi])

\* math.comb(n, k) for n, k >= 0: the exact integer binomial coefficient,
\* 0 when k > n.
RECURSIVE comb(_, _)
comb(n, k) ==
    IF k > n THEN 0
    ELSE IF k = 0 \/ k = n THEN 1
    ELSE comb(n - 1, k - 1) + comb(n - 1, k)

\* ------------------------------------------------------------------------
\* The circuit (pysdd SddNode / SddManager as the program reads them)
\* ------------------------------------------------------------------------
\* A circuit is [var_count, root, nodes]: nodes[id] is the node with
\* identity id, a record [kind, literal, elements]; elements is the ordered
\* sequence of <<prime id, sub id>> pairs of a decision node.  Identities
\* are arbitrary (not a topological numbering).

TrueNode == [kind |-> "true", literal |-> 0, elements |-> <<>>]
FalseNode == [kind |-> "false", literal |-> 0, elements |-> <<>>]
Lit(l) == [kind |-> "literal", literal |-> l, elements |-> <<>>]
Dec(els) == [kind |-> "decision", literal |-> 0, elements |-> els]
\* A node that answers False to is_true, is_false, is_literal and is_decision.
OtherNode == [kind |-> "other", literal |-> 0, elements |-> <<>>]

\* An optional argument is a sequence of length at most one: None is the
\* empty sequence and a value v that was passed is <<v>>.
None == <<>>
Some(v) == <<v>>
Val(o) == o[1]

is_true(node) == node.kind = "true"
is_false(node) == node.kind = "false"
is_literal(node) == node.kind = "literal"
is_decision(node) == node.kind = "decision"

is_constant_gate(node) == is_true(node) \/ is_false(node)
is_variable_gate(node) == is_literal(node)
is_negation_gate(node) == is_literal(node) /\ node.literal < 0
constant_value(node) == IF is_true(node) THEN 1 ELSE 0
variable_of(node) == Abs(node.literal)

\* mgr.var_count() and the identifiers 1..var_count
var_ids(sdd) == 1 .. sdd.var_count

\* ------------------------------------------------------------------------
\* Dependency analysis
\* ------------------------------------------------------------------------

\* dfs(node) of get_topological_order: st = [visited, topo_order].
RECURSIVE dfs(_, _, _), dfs_elements(_, _, _, _)
\* (dfs_unmarked: the walk without the test for a visited node.)
dfs_unmarked(sdd, id, st) ==
    LET node == sdd.nodes[id]
        st1 == [st EXCEPT !.visited = @ \cup {id}]
        st2 == IF is_decision(node)
               THEN dfs_elements(sdd, node.elements, 1, st1)
               ELSE st1
    IN  [st2 EXCEPT !.topo_order = Append(@, id)]
dfs(sdd, id, st) ==
    IF id \in st.visited THEN st
    ELSE LET node == sdd.nodes[id]
             st1 == [st EXCEPT !.visited = @ \cup {id}]
             st2 == IF is_decision(node)
                    THEN dfs_elements(sdd, node.elements, 1, st1)
                    ELSE st1
         IN  [st2 EXCEPT !.topo_order = Append(@, id)]
dfs_elements(sdd, els, i, st) ==
    IF i > Len(els) THEN st
    ELSE dfs_elements(sdd, els, i + 1,
                      dfs(sdd, els[i][2], dfs(sdd, els[i][1], st)))

\* Gates in bottom-up order (leaves first), as a sequence of identities.
get_topological_order(sdd) ==
    dfs(sdd, sdd.root, [visited |-> {}, topo_order |-> <<>>]).topo_order

\* A gate kind the analysis handles; any other kind raises
\* NotImplementedError.
\* (known_kind_any: every gate taken as handled.)
known_kind_any(g) == TRUE
known_kind(g) == is_constant_gate(g) \/ is_variable_gate(g) \/ is_decision(g)

\* var(g) of one gate of known kind, given var_of of the gates before it in
\* the order.
\* (var_of_gate_primes: the subs left out of a decision node's union.)
var_of_gate_primes(sdd, gid, var_of) ==
    LET g == sdd.nodes[gid]
    IN  IF is_constant_gate(g) THEN {}
        ELSE IF is_variable_gate(g) THEN {variable_of(g)}
        ELSE UNION {var_of[g.elements[i][1]] : i \in 1 .. Len(g.elements)}
var_of_gate(sdd, gid, var_of) ==
    LET g == sdd.nodes[gid]
    IN  IF is_constant_gate(g) THEN {}
        ELSE IF is_variable_gate(g) THEN {variable_of(g)}
        ELSE UNION {var_of[g.elements[i][1]] \cup var_of[g.elements[i][2]] :
                    i \in 1 .. Len(g.elements)}

\* The analysis loop over the first i gates of topo_order: [raised, var_of],
\* raised as soon as one gate has an unknown kind (the table is then the
\* one built so far).
RECURSIVE var_of_upto(_, _, _)
var_of_upto(sdd, topo_order, i) ==
    IF i = 0 THEN [raised |-> FALSE, var_of |-> <<>>]
    ELSE LET before == var_of_upto(sdd, topo_order, i - 1)
             gid == topo_order[i]
         IN  IF before.raised THEN before
             ELSE IF ~known_kind(sdd.nodes[gid])
                  THEN [before EXCEPT !.raised = TRUE]
                  ELSE [before EXCEPT
                          !.var_of = @ @@ (gid :> var_of_gate(sdd, gid, @))]

\* ------------------------------------------------------------------------
\* The DP engine: one gate of one per-feature pass
\* ------------------------------------------------------------------------
\* gamma and delta map a gate identity to an array, a function on
\* 0 .. max_ell.  p maps variable ids to rationals, e to 0 or 1.

\* The pass for x reads p[y] and e[y] at a literal gate on y # x: a
\* KeyError when either mapping lacks y.
gate_key_error(sdd, gid, x, p, e) ==
    LET g == sdd.nodes[gid]
    IN  /\ is_variable_gate(g)
        /\ variable_of(g) # x
        /\ (variable_of(g) \notin DOMAIN p \/ variable_of(g) \notin DOMAIN e)

\* Arrays of a constant gate: every entry is the constant.
\* (constant_arrays_true: every constant taken as true.)
constant_arrays_true(g, max_ell) ==
    LET arr == [ell \in 0 .. max_ell |-> ROne]
    IN  [gamma |-> arr, delta |-> arr]
constant_arrays(g, max_ell) ==
    LET arr == [ell \in 0 .. max_ell |-> RInt(constant_value(g))]
    IN  [gamma |-> arr, delta |-> arr]

\* Arrays of a literal gate, for the target feature x.
\* (literal_arrays_swapped: the two polarities of the literal on x exchanged.)
literal_arrays_swapped(g, x, p, e) ==
    LET y == variable_of(g)
    IN  IF y = x
        THEN IF is_negation_gate(g)
             THEN [gamma |-> (0 :> ROne), delta |-> (0 :> RZero)]
             ELSE [gamma |-> (0 :> RZero), delta |-> (0 :> ROne)]
        ELSE LET py == p[y]
                 ey == RInt(e[y])
                 arr == IF is_negation_gate(g)
                        THEN (0 :> RSub(ROne, py)) @@ (1 :> RSub(ROne, ey))
                        ELSE (0 :> py) @@ (1 :> ey)
             IN  [gamma |-> arr, delta |-> arr]
\* (literal_arrays_padded: the literal on x given a second entry.)
literal_arrays_padded(g, x, p, e) ==
    LET y == variable_of(g)
    IN  IF y = x
        THEN IF is_negation_gate(g)
             THEN [gamma |-> (0 :> RZero) @@ (1 :> RZero),
                   delta |-> (0 :> ROne) @@ (1 :> RZero)]
             ELSE [gamma |-> (0 :> ROne) @@ (1 :> RZero),
                   delta |-> (0 :> RZero) @@ (1 :> RZero)]
        ELSE LET py == p[y]
                 ey == RInt(e[y])
                 arr == IF is_negation_gate(g)
                        THEN (0 :> RSub(ROne, py)) @@ (1 :> RSub(ROne, ey))
                        ELSE (0 :> py) @@ (1 :> ey)
             IN  [gamma |-> arr, delta |-> arr]
\* (literal_arrays_delta_unfixed: delta of a literal on another variable
\* not fixed to the entity.)
literal_arrays_delta_unfixed(g, x, p, e) ==
    LET y == variable_of(g)
    IN  IF y = x
        THEN IF is_negation_gate(g)
             THEN [gamma |-> (0 :> RZero), delta |-> (0 :> ROne)]
             ELSE [gamma |-> (0 :> ROne), delta |-> (0 :> RZero)]
        ELSE LET py == p[y]
                 ey == RInt(e[y])
                 arr == IF is_negation_gate(g)
                        THEN (0 :> RSub(ROne, py)) @@ (1 :> RSub(ROne, ey))
                        ELSE (0 :> py) @@ (1 :> ey)
             IN  [gamma |-> arr, delta |-> (0 :> arr[0]) @@ (1 :> arr[0])]
literal_arrays(g, x, p, e) ==
    LET y == variable_of(g)
    IN  IF y = x
        THEN IF is_negation_gate(g)
             THEN [gamma |-> (0 :> RZero), delta |-> (0 :> ROne)]
             ELSE [gamma |-> (0 :> ROne), delta |-> (0 :> RZero)]
        ELSE LET py == p[y]
                 ey == RInt(e[y])
                 arr == IF is_negation_gate(g)
                        THEN (0 :> RSub(ROne, py)) @@ (1 :> RSub(ROne, ey))
                        ELSE (0 :> py) @@ (1 :> ey)
             IN  [gamma |-> arr, delta |-> arr]

\* Phase 1 (AND) for one element: the convolution of the prime's and the
\* sub's array over the splits ell_p + ell_s = ell_child, with no weights.
\* (and_phase_short: the split ell_s = Ls left out of the convolution.)
and_phase_short(prime_arr, sub_arr, Lp, Ls, child_len) ==
    [ell_child \in 0 .. child_len |->
        RSum([ell_p \in 0 .. Lp |->
                 IF 0 <= ell_child - ell_p /\ ell_child - ell_p < Ls
                 THEN RMul(prime_arr[ell_p], sub_arr[ell_child - ell_p])
                 ELSE RZero],
             0, Lp)]
and_phase(prime_arr, sub_arr, Lp, Ls, child_len) ==
    [ell_child \in 0 .. child_len |->
        RSum([ell_p \in 0 .. Lp |->
                 IF 0 <= ell_child - ell_p /\ ell_child - ell_p <= Ls
                 THEN RMul(prime_arr[ell_p], sub_arr[ell_child - ell_p])
                 ELSE RZero],
             0, Lp)]

\* The binomial weight of the lift from ell_child to ell_parent.
\* (lift_weight_unweighted: the lift without the binomial coefficient.)
lift_weight_unweighted(missing, dist) == 1
lift_weight(missing, dist) == comb(missing, dist)

\* Phase 2 (OR) for one element: its array lifted to the parent's scope.
\* (or_lift_strict: the lift by the full distance missing left out.)
or_lift_strict(child_arr, child_len, max_ell) ==
    LET missing == max_ell - child_len
    IN  [ell_parent \in 0 .. max_ell |->
            RSum([ell_child \in 0 .. child_len |->
                     IF 0 <= ell_parent - ell_child
                        /\ ell_parent - ell_child < missing
                     THEN RMul(child_arr[ell_child],
                               RInt(lift_weight(missing, ell_parent - ell_child)))
                     ELSE RZero],
                 0, child_len)]
or_lift(child_arr, child_len, max_ell) ==
    LET missing == max_ell - child_len
    IN  [ell_parent \in 0 .. max_ell |->
            RSum([ell_child \in 0 .. child_len |->
                     IF 0 <= ell_parent - ell_child
                        /\ ell_parent - ell_child <= missing
                     THEN RMul(child_arr[ell_child],
                               RInt(lift_weight(missing, ell_parent - ell_child)))
                     ELSE RZero],
                 0, child_len)]

\* One element of a decision gate: (child array lifted to the parent), for
\* the table tab (gamma or delta).
element_lifted(el, x, var_of, tab, max_ell) ==
    LET Vp == var_of[el[1]] \ {x}
        Vs == var_of[el[2]] \ {x}
        child_len == Cardinality(Vp \cup Vs)
        child == and_phase(tab[el[1]], tab[el[2]],
                           Cardinality(Vp), Cardinality(Vs), child_len)
    IN  or_lift(child, child_len, max_ell)

\* Sum of the first i elements' lifted arrays, accumulated in element order.
RECURSIVE or_phase(_, _, _, _, _, _)
or_phase(els, i, x, var_of, tab, max_ell) ==
    IF i = 0 THEN [ell \in 0 .. max_ell |-> RZero]
    ELSE LET acc == or_phase(els, i - 1, x, var_of, tab, max_ell)
             add == element_lifted(els[i], x, var_of, tab, max_ell)
         IN  [ell \in 0 .. max_ell |-> RAdd(acc[ell], add[ell])]

\* Arrays of a decision gate: OR over its elements of (prime AND sub).
\* (decision_arrays_one_table: delta built from the children's gamma.)
decision_arrays_one_table(g, x, var_of, gamma, delta, max_ell) ==
    [gamma |-> or_phase(g.elements, Len(g.elements), x, var_of, gamma, max_ell),
     delta |-> or_phase(g.elements, Len(g.elements), x, var_of, gamma, max_ell)]
decision_arrays(g, x, var_of, gamma, delta, max_ell) ==
    [gamma |-> or_phase(g.elements, Len(g.elements), x, var_of, gamma, max_ell),
     delta |-> or_phase(g.elements, Len(g.elements), x, var_of, delta, max_ell)]

\* The body of the bottom-up loop for gate gid (no KeyError at this gate).
gate_arrays(sdd, gid, x, p, e, var_of, gamma, delta) ==
    LET g == sdd.nodes[gid]
        max_ell == Cardinality(var_of[gid] \ {x})
    IN  IF is_constant_gate(g) THEN constant_arrays(g, max_ell)
        ELSE IF is_variable_gate(g) THEN literal_arrays(g, x, p, e)
        ELSE decision_arrays(g, x, var_of, gamma, delta, max_ell)

\* Shapley weight of cardinality k in a game of n players.
\* (shap_weight_all_players: the coefficient taken over n players, not n - 1.)
shap_weight_all_players(n, k) == IF n = 1 THEN ROne ELSE Rat(1, n * comb(n, k))
\* (shap_weight_uniform: the binomial coefficient left out.)
shap_weight_uniform(n, k) == IF n = 1 THEN ROne ELSE Rat(1, n)
shap_weight(n, k) == IF n = 1 THEN ROne ELSE Rat(1, n * comb(n - 1, k))

\* The final reduction at the root for feature x.
shap_reduce(n, x, p, e, gamma_out, delta_out) ==
    RSum([k \in 0 .. n - 1 |->
             RMul(shap_weight(n, k),
                  RMul(RSub(RInt(e[x]), p[x]),
                       RSub(gamma_out[k], delta_out[k])))],
         0, n - 1)

\* X_in_circuit: the keys of p, in key order, that are in var(root).
\* (X_in_circuit_all: every key of p; X_in_circuit_by_count: the keys up to
\* the size of var(root).)
X_in_circuit_all(X, var_out) == X
\* (X_in_circuit_but_last: the last of those keys left without a pass.)
X_in_circuit_but_last(X, var_out) ==
    LET all == SelectSeq(X, LAMBDA x : x \in var_out)
    IN  SubSeq(all, 1, Len(all) - 1)
X_in_circuit_by_count(X, var_out) == SelectSeq(X, LAMBDA x : x <= Cardinality(var_out))
X_in_circuit(X, var_out) == SelectSeq(X, LAMBDA x : x \in var_out)

\* The elements of a finite set of integers in increasing order.
RECURSIVE ascending(_)
ascending(S) ==
    IF S = {} THEN <<>>
    ELSE LET m == CHOOSE a \in S : \A b \in S : a <= b
         IN  <<m>> \o ascending(S \ {m})

\* The tables after the first i gates of a pass for x (no KeyError on the
\* way): the bottom-up loop as a whole.
RECURSIVE pass_tables(_, _, _, _, _, _, _)
pass_tables(sdd, topo_order, i, x, p, e, var_of) ==
    IF i = 0 THEN [gamma |-> <<>>, delta |-> <<>>]
    ELSE LET t == pass_tables(sdd, topo_order, i - 1, x, p, e, var_of)
             gid == topo_order[i]
             a == gate_arrays(sdd, gid, x, p, e, var_of, t.gamma, t.delta)
         IN  [gamma |-> t.gamma @@ (gid :> a.gamma),
              delta |-> t.delta @@ (gid :> a.delta)]

\* compute_shap_algorithm as a function of its arguments, for a circuit of
\* known gate kinds and p, e that cover the circuit's variables.
compute_shap_algorithm(sdd, p, e) ==
    LET topo_order == get_topological_order(sdd)
        var_of == var_of_upto(sdd, topo_order, Len(topo_order)).var_of
        var_out == var_of[sdd.root]
        n == Cardinality(var_out)
    IN  [x \in DOMAIN p |->
            IF n = 0 \/ x \notin var_out THEN RZero
            ELSE LET t == pass_tables(sdd, topo_order, Len(topo_order),
                                      x, p, e, var_of)
                 IN  shap_reduce(n, x, p, e, t.gamma[sdd.root], t.delta[sdd.root])]

\* ------------------------------------------------------------------------
\* The certification oracle
\* ------------------------------------------------------------------------

\* The circuit's value under a full assignment a (variable id -> 0 or 1).
RECURSIVE eval_node(_, _, _)
eval_node(sdd, id, a) ==
    LET g == sdd.nodes[id]
    IN  IF is_true(g) THEN TRUE
        ELSE IF is_false(g) THEN FALSE
        ELSE IF is_literal(g) THEN (a[variable_of(g)] = 1) = (g.literal > 0)
        ELSE \E i \in 1 .. Len(g.elements) :
                /\ eval_node(sdd, g.elements[i][1], a)
                /\ eval_node(sdd, g.elements[i][2], a)

\* Sum and product of f over the finite set S.
RECURSIVE RSumSet(_, _)
RSumSet(f, S) ==
    IF S = {} THEN RZero
    ELSE LET s == CHOOSE t \in S : TRUE
         IN  RAdd(f[s], RSumSet(f, S \ {s}))
RECURSIVE RProdSet(_, _)
RProdSet(f, S) ==
    IF S = {} THEN ROne
    ELSE LET s == CHOOSE t \in S : TRUE
         IN  RMul(f[s], RProdSet(f, S \ {s}))

\* (literal_weight_clamped_true: a clamped variable always weighted as true.)
literal_weight_clamped_true(p, e, S, i) ==
    IF i \in S THEN ROne ELSE p[i]

\* The weight set_literal_weight gives the positive literal of variable i.
literal_weight(p, e, S, i) ==
    IF i \in S THEN (IF e[i] = 1 THEN ROne ELSE RZero) ELSE p[i]

\* v(S) = E(C = 1 | Z_S = e_S): the weighted model count of the circuit,
\* the sum over the satisfying assignments of the product of the literal
\* weights (the positive literal's weight w, the negative literal's 1 - w).
v_conditional_wmc(sdd, p, e, S) ==
    LET w == [i \in DOMAIN p |-> literal_weight(p, e, S, i)]
        models == {a \in [DOMAIN p -> {0, 1}] : eval_node(sdd, sdd.root, a)}
    IN  RSumSet([a \in models |->
                    RProdSet([i \in DOMAIN p |->
                                 IF a[i] = 1 THEN w[i] ELSE RSub(ROne, w[i])],
                             DOMAIN p)],
                models)

\* itertools.combinations(ids, r) for a list ids: the r-element selections
\* in the order of their positions, each as the set the cache is keyed by.
RECURSIVE combinations(_, _)
combinations(ids, r) ==
    IF r = 0 THEN <<{}>>
    ELSE IF Len(ids) < r THEN <<>>
    ELSE LET with_head == combinations(Tail(ids), r - 1)
         IN  [i \in 1 .. Len(with_head) |-> {Head(ids)} \cup with_head[i]]
             \o combinations(Tail(ids), r)

\* The subsets the cache loop evaluates v for, in order: r = r_lo, .., n.
RECURSIVE cache_order(_, _)
cache_order(ids, r_lo) ==
    IF r_lo > Len(ids) THEN <<>>
    ELSE combinations(ids, r_lo) \o cache_order(ids, r_lo + 1)

\* The steps of the oracle in order: one call of v_conditional_wmc per
\* entry of the cache loop, then one stored sum per feature.
oracle_steps(ids) ==
    [i \in 1 .. Len(cache_order(ids, 0)) |-> <<"v", cache_order(ids, 0)[i]>>]
    \o [i \in 1 .. Len(ids) |-> <<"phi", ids[i]>>]

\* The exact Shapley formula over all subsets of ids.
shap_exact_subset_enum(sdd, p, e, ids) ==
    LET n == Cardinality(ids)
        v == [S \in SUBSET ids |-> v_conditional_wmc(sdd, p, e, S)]
    IN  [x \in ids |->
            RSumSet([S \in SUBSET (ids \ {x}) |->
                        RMul(shap_weight(n, Cardinality(S)),
                             RSub(v[S \cup {x}], v[S]))],
                    SUBSET (ids \ {x}))]

\* ------------------------------------------------------------------------
\* The facade compute_shap_scores
\* ------------------------------------------------------------------------

\* The defaults for a variable the caller's mappings do not name.
DEFAULT_P == Rat(1, 2)
DEFAULT_E == 1

\* Tolerances of the certification: atol = 1/ATOL_DEN, rtol = 1/RTOL_DEN.
ATOL_DEN == 1000000000
RTOL_DEN == 10000000

\* f"x{i}"
\* (var_id_to_name_from_zero: the names counted from x0.)
var_id_to_name_from_zero(i) == "x" \o ToString(i - 1)
var_id_to_name(i) == "x" \o ToString(i)

\* The mapping an optional argument stands for: {} when it is None.
or_empty(o) == IF o = None THEN <<>> ELSE Val(o)

\* float(v) and int(v) of a number that is already of that type.
py_float(v) == v
py_int(v) == v

\* p and e as the facade builds them, keyed by variable id.
build_p(sdd, marginals) ==
    [vid \in var_ids(sdd) |->
        IF var_id_to_name(vid) \in DOMAIN or_empty(marginals)
        THEN py_float(or_empty(marginals)[var_id_to_name(vid)])
        ELSE DEFAULT_P]
\* (build_e_default_zero: an unnamed variable's entity value taken as 0.)
build_e_default_zero(sdd, entity) ==
    [vid \in var_ids(sdd) |->
        IF var_id_to_name(vid) \in DOMAIN or_empty(entity)
        THEN py_int(or_empty(entity)[var_id_to_name(vid)])
        ELSE 0]
build_e(sdd, entity) ==
    [vid \in var_ids(sdd) |->
        IF var_id_to_name(vid) \in DOMAIN or_empty(entity)
        THEN py_int(or_empty(entity)[var_id_to_name(vid)])
        ELSE DEFAULT_E]

\* diff > tol with tol = atol + rtol * max(1, |b|), decided in integers:
\* for diff = dn/dd > 0 and m = mn/md the comparison is
\* ATOL_DEN * dn * md > dd * (md + (ATOL_DEN / RTOL_DEN) * mn).
\* (exceeds_tolerance_tenth: the tolerance taken as one tenth.)
exceeds_tolerance_tenth(a, b) ==
    LET diff == RAbs(RSub(a, b))
    IN  ~RLeq(diff, Rat(1, 10))
exceeds_tolerance(a, b) ==
    LET diff == RAbs(RSub(a, b))
        m == RMax(ROne, RAbs(b))
    IN  /\ diff[1] # 0
        /\ ATOL_DEN > (diff[2] * (m[2] + (ATOL_DEN \div RTOL_DEN) * m[1]))
                        \div (diff[1] * m[2])

\* The variables whose fast and brute scores differ by more than the
\* tolerance.
mismatches(sdd, shap_by_id, brute_by_id) ==
    {vid \in var_ids(sdd) : exceeds_tolerance(shap_by_id[vid], brute_by_id[vid])}

\* max(diffs, key=lambda k: diffs[k][2]): the mismatching variable with the
\* largest difference, the first of them in the order of var_ids on a tie.
worst_vid(sdd, shap_by_id, brute_by_id) ==
    LET diffs == mismatches(sdd, shap_by_id, brute_by_id)
        diff(v) == RAbs(RSub(shap_by_id[v], brute_by_id[v]))
    IN  CHOOSE v \in diffs :
            \A w \in diffs : /\ RLeq(diff(w), diff(v))
                             /\ (diff(w) = diff(v) => v <= w)

\* What the AssertionError of a failed certification reports.
certification_error(sdd, shap_by_id, brute_by_id) ==
    LET worst == worst_vid(sdd, shap_by_id, brute_by_id)
    IN  [name |-> var_id_to_name(worst),
         fast |-> shap_by_id[worst],
         brute |-> brute_by_id[worst],
         diff |-> RAbs(RSub(shap_by_id[worst], brute_by_id[worst])),
         mismatches |-> Cardinality(mismatches(sdd, shap_by_id, brute_by_id)),
         declared |-> Cardinality(var_ids(sdd))]

\* The mapping returned: one entry per declared variable, keyed by name.
\* (named_scores_nonzero: only the variables with a non-zero score.)
named_scores_nonzero(sdd, shap_by_id) ==
    [name \in {var_id_to_name(vid) :
                  vid \in {v \in var_ids(sdd) : shap_by_id[v] # RZero}} |->
        shap_by_id[CHOOSE vid \in var_ids(sdd) : var_id_to_name(vid) = name]]
named_scores(sdd, shap_by_id) ==
    [name \in {var_id_to_name(vid) : vid \in var_ids(sdd)} |->
        shap_by_id[CHOOSE vid \in var_ids(sdd) : var_id_to_name(vid) = name]]

\* compute_shap_scores without certification, as a function of its
\* arguments (circuit present).
compute_shap_scores(sdd, marginals, entity) ==
    named_scores(sdd, compute_shap_algorithm(sdd, build_p(sdd, marginals),
                                             build_e(sdd, entity)))

\* ------------------------------------------------------------------------
\* Circuits given to the program
\* ------------------------------------------------------------------------
\* Each is decomposable and deterministic.  Node identities are not in
\* topological order.

\* Constant circuits.
CTrue == [var_count |-> 1, root |-> 1, nodes |-> <<TrueNode>>]
CFalse == [var_count |-> 2, root |-> 1, nodes |-> <<FalseNode>>]

\* A single literal over a manager that declares more variables.
CLit == [var_count |-> 2, root |-> 1, nodes |-> <<Lit(1)>>]
CNegLit == [var_count |-> 2, root |-> 1, nodes |-> <<Lit(-2)>>]

\* (x1 AND x2) OR (NOT x1 AND NOT x2), as compiled for a right-linear vtree.
Scenario1 ==
    [var_count |-> 2, root |-> 1,
     nodes |-> <<Dec(<<<<2, 4>>, <<3, 5>>>>), Lit(1), Lit(-1), Lit(2), Lit(-2)>>]

\* x1 AND x3 over three declared variables: x2 is outside the support.
CAnd13 ==
    [var_count |-> 3, root |-> 4,
     nodes |-> <<Lit(1), Lit(-1), Lit(3), Dec(<<<<1, 3>>, <<2, 5>>>>), FalseNode>>]

\* x1 OR (x2 AND x3): the first element omits x2 and x3 (lifted by two).
COr1And23 ==
    [var_count |-> 3, root |-> 7,
     nodes |-> <<Lit(1), Lit(-1), TrueNode, Lit(2), Lit(-2), Lit(3),
                 Dec(<<<<1, 3>>, <<2, 8>>>>),
                 Dec(<<<<4, 6>>, <<5, 9>>>>), FalseNode>>]

\* (x1 XOR x2) AND x3  OR  (x1 XNOR x2) AND NOT x3: primes are decision
\* nodes over two variables (a balanced vtree), literals are shared.
CBalanced ==
    [var_count |-> 3, root |-> 3,
     nodes |-> <<Dec(<<<<4, 7>>, <<5, 6>>>>),
                 Dec(<<<<4, 6>>, <<5, 7>>>>),
                 Dec(<<<<1, 8>>, <<2, 9>>>>),
                 Lit(1), Lit(-1), Lit(2), Lit(-2), Lit(3), Lit(-3)>>]

\* (x1 AND M) OR (NOT x1 AND M) with M = x2 AND x3: the decision node M is
\* shared by both elements, and x1 is in var(root) although the function
\* does not depend on it.
CShared ==
    [var_count |-> 3, root |-> 6,
     nodes |-> <<Lit(1), Lit(-1), Lit(2), Lit(-2), Lit(3),
                 Dec(<<<<1, 7>>, <<2, 7>>>>),
                 Dec(<<<<3, 5>>, <<4, 8>>>>), FalseNode>>]

\* (x1 AND x2) OR (x3 AND x4), as compiled for a right-linear vtree; the
\* node for x3 AND x4 is shared.
Scenario2 ==
    [var_count |-> 4, root |-> 12,
     nodes |-> <<Lit(1), Lit(-1), Lit(2), Lit(-2), Lit(3), Lit(-3), Lit(4),
                 TrueNode, FalseNode,
                 Dec(<<<<5, 7>>, <<6, 9>>>>),
                 Dec(<<<<3, 8>>, <<4, 10>>>>),
                 Dec(<<<<1, 11>>, <<2, 10>>>>)>>]

\* Circuits outside the engine's contract.
\* The root is of no known kind.
CUnknownRoot == [var_count |-> 1, root |-> 1, nodes |-> <<OtherNode>>]

\* (x1 AND false) OR (NOT x1 AND g) with g of no known kind: g is reached
\* after three gates of known kind and before the decision gate.
CUnknownSub ==
    [var_count |-> 2, root |-> 3,
     nodes |-> <<Lit(1), Lit(-1), Dec(<<<<1, 5>>, <<2, 4>>>>), OtherNode, FalseNode>>]

\* (x1 AND M) OR (NOT x1 AND false) with M = x1 AND x2: the prime x1 and
\* the sub M share x1 (not decomposable); the function is x1 AND x2.
CRepeatedVariable ==
    [var_count |-> 2, root |-> 6,
     nodes |-> <<Lit(1), Lit(-1), Lit(2), FalseNode,
                 Dec(<<<<1, 3>>, <<2, 4>>>>),
                 Dec(<<<<1, 5>>, <<2, 4>>>>)>>]

\* M AND M with M = x1 AND x2: prime and sub are the same node (not
\* decomposable); the function is x1 AND x2.
CSquared ==
    [var_count |-> 2, root |-> 6,
     nodes |-> <<Lit(1), Lit(-1), Lit(2), FalseNode,
                 Dec(<<<<1, 3>>, <<2, 4>>>>),
                 Dec(<<<<5, 5>>>>)>>]

Circuits ==
    {CTrue, CFalse, CLit, CNegLit, Scenario1, CAnd13, COr1And23, CBalanced, CShared}

\* The grid of marginal probabilities.
PGrid == {Rat(k, PDen) : k \in 0 .. PDen}

\* The declared feature names of a circuit.
names_of(sdd) == {var_id_to_name(vid) : vid \in var_ids(sdd)}

\* ------------------------------------------------------------------------
\* The program as a state machine: one call of compute_shap_scores
\* ------------------------------------------------------------------------

VARIABLES
    sdd, marginals, entity, check,  \* the arguments (optional ones as None/Some)
    pc,                             \* the position in the call
    err,                            \* the exception raised ("" while none)
    p, e,                           \* the id-keyed mappings the facade builds
    topo_order, var_of,             \* the dependency analysis
    X, shap_scores, Xc,             \* X, shap_scores and X_in_circuit of the engine
    xi, gi,                         \* positions in Xc and in topo_order
    gamma, delta,                   \* the tables of the pass in progress
    passes,                         \* the targets a pass was started for, in order
    brute,                          \* the oracle's result (None until it has run)
    result,                         \* the mapping returned (None until then)
    callee,                         \* the function the caller invoked
    check_arg,                      \* the check argument as passed (None when omitted)
    failure,                        \* what the certification error reports (None until raised)
    p_keys,                         \* the keys of p in the order of the dict
    oracle_trace,                   \* the oracle's steps in order: <<"v", S>> and <<"phi", x>>
    args,                           \* the arguments of a call of a helper function
    file                            \* the text of the CNF file a helper writes or reads

vars == <<sdd, marginals, entity, check, pc, err, p, e, topo_order, var_of,
          X, shap_scores, Xc, xi, gi, gamma, delta, passes, brute, result,
          callee, check_arg, failure, p_keys, oracle_trace, args, file>>

\* The value check takes when the caller omits it.
\* (DEFAULT_CHECK_on: certification on unless the caller turns it off.)
DEFAULT_CHECK_on == TRUE
DEFAULT_CHECK == FALSE

\* Nothing computed yet: the locals of both functions before their first
\* statement.
Fresh ==
    /\ err = ""
    /\ topo_order = <<>> /\ var_of = <<>>
    /\ X = <<>> /\ shap_scores = <<>> /\ Xc = <<>>
    /\ xi = 0 /\ gi = 0
    /\ gamma = <<>> /\ delta = <<>>
    /\ passes = <<>>
    /\ brute = None /\ result = None /\ failure = None
    /\ oracle_trace = <<>>

\* The state at a call of compute_shap_scores that passes check = c.
AtCall(s, m, en, c) ==
    /\ callee = "compute_shap_scores"
    /\ sdd = s /\ marginals = m /\ entity = en
    /\ check_arg = Some(c) /\ check = c
    /\ pc = "call"
    /\ p = <<>> /\ e = <<>> /\ p_keys = <<>>
    /\ args = <<>> /\ file = ""
    /\ Fresh

\* The state at a call of compute_shap_scores that leaves check out.
AtCallWithoutCheck(s, m, en) ==
    /\ callee = "compute_shap_scores"
    /\ sdd = s /\ marginals = m /\ entity = en
    /\ check_arg = None /\ check = DEFAULT_CHECK
    /\ pc = "call"
    /\ p = <<>> /\ e = <<>> /\ p_keys = <<>>
    /\ args = <<>> /\ file = ""
    /\ Fresh

\* The state at a direct call compute_shap_algorithm(s, pp, ee): p and e
\* are the caller's id-keyed mappings, p a dict whose keys were inserted in
\* the order keys, and there is no facade around it.
AtEngineCallOrdered(s, keys, pp, ee) ==
    /\ callee = "compute_shap_algorithm"
    /\ sdd = Some(s) /\ marginals = None /\ entity = None
    /\ check_arg = None /\ check = FALSE
    /\ pc = "analyze"
    /\ p = pp /\ e = ee /\ p_keys = keys
    /\ args = <<>> /\ file = ""
    /\ Fresh

\* A direct call with a p written in increasing order of its keys.
AtEngineCall(s, pp, ee) == AtEngineCallOrdered(s, ascending(DOMAIN pp), pp, ee)

\* The state at a call fn(a) of a function outside the SHAP computation,
\* with the mappings m and en when it takes them and the file text f when
\* it reads one.
AtHelperCall(fn, a, m, en, f) ==
    /\ callee = fn /\ args = a /\ file = f
    /\ sdd = None /\ marginals = m /\ entity = en
    /\ check_arg = None /\ check = FALSE
    /\ pc = "call"
    /\ p = <<>> /\ e = <<>> /\ p_keys = <<>>
    /\ Fresh

\* Calls with every declared feature named in both mappings, marginals on
\* the grid, and the call without a circuit.
Init ==
    \/ \E c \in Circuits :
         \E m \in [names_of(c) -> PGrid], en \in [names_of(c) -> {0, 1}],
            chk \in BOOLEAN :
            AtCall(Some(c), Some(m), Some(en), chk)
    \/ \E chk \in BOOLEAN : AtCall(None, None, None, chk)

\* A feature name outside the declared range x1 .. x<var_count>.
extra_name(c) == var_id_to_name(c.var_count + 1)

\* The mappings from some of the names in N to values in V.
partial_maps(N, V) == UNION {[D -> V] : D \in SUBSET N}

\* Calls for the renaming of variables: circuits whose variables play
\* different roles, one of them with a declared variable outside its support.
SymmetryCircuits == {Scenario1, CAnd13, COr1And23}
InitSymmetry ==
    \/ \E c \in SymmetryCircuits :
         \E m \in [names_of(c) -> PGrid], en \in [names_of(c) -> {0, 1}],
            chk \in BOOLEAN :
            AtCall(Some(c), Some(m), Some(en), chk)
    \/ \E chk \in BOOLEAN : AtCall(None, None, None, chk)

\* Calls whose mappings are absent, empty, partial, or name a feature the
\* manager does not declare.
FacadeCircuits == {CLit, Scenario1}
InitFacade ==
    \/ \E c \in FacadeCircuits :
         \E m \in {None} \cup
                  {Some(f) : f \in partial_maps(names_of(c) \cup {extra_name(c)}, PGrid)},
            en \in {None} \cup
                   {Some(f) : f \in partial_maps(names_of(c) \cup {extra_name(c)}, {0, 1})},
            chk \in BOOLEAN :
            AtCall(Some(c), m, en, chk)
    \/ \E chk \in BOOLEAN : AtCall(None, None, None, chk)

\* The calls of the two documented scenarios: defaults (absent or empty
\* mappings) or one marginal for all features, and any entity.
ScenarioCircuits == {Scenario1, Scenario2}
InitScenario ==
    \/ \E c \in ScenarioCircuits :
         \E m \in {None, Some(<<>>)} \cup
                  {Some([name \in names_of(c) |-> q]) : q \in PGrid},
            en \in {None, Some(<<>>)} \cup
                   {Some(f) : f \in [names_of(c) -> {0, 1}]},
            chk \in BOOLEAN :
            AtCall(Some(c), m, en, chk)
    \/ \E chk \in BOOLEAN : AtCall(None, None, None, chk)

\* Calls of the facade on circuits inside and outside the engine's
\* contract, with check passed or left out, and the call without a circuit.
ContractCircuits == {Scenario1, CAnd13, CUnknownRoot, CUnknownSub, CRepeatedVariable, CSquared}
InitContract ==
    \/ \E c \in ContractCircuits :
         \E m \in [names_of(c) -> PGrid], en \in [names_of(c) -> {0, 1}] :
            \/ \E chk \in BOOLEAN : AtCall(Some(c), Some(m), Some(en), chk)
            \/ AtCallWithoutCheck(Some(c), Some(m), Some(en))
    \/ \E chk \in BOOLEAN : AtCall(None, None, None, chk)
    \/ AtCallWithoutCheck(None, None, None)

\* Calls for the tables of the passes: circuits with constants, literals of
\* both signs, elements that omit variables of their gate, non-literal
\* primes and shared gates, and two circuits that are not decomposable.
TableCircuits ==
    {CTrue, CNegLit, Scenario1, COr1And23, CBalanced, CShared, CRepeatedVariable, CSquared}
InitTables ==
    \E c \in TableCircuits :
       \E m \in [names_of(c) -> PGrid], en \in [names_of(c) -> {0, 1}],
          chk \in BOOLEAN :
          AtCall(Some(c), Some(m), Some(en), chk)

\* The p and e of test_algorithm2_with_fixed_combinatorics.
TestP == (1 :> Rat(3, 5)) @@ (2 :> Rat(7, 10)) @@ (3 :> Rat(2, 5)) @@ (4 :> Rat(4, 5))
TestE == (1 :> 1) @@ (2 :> 0) @@ (3 :> 1) @@ (4 :> 1)

\* The mapping f restricted to the keys in D.
restricted(f, D) == [k \in D |-> f[k]]

\* Direct calls of the engine with id-keyed p and e: any keys among the
\* declared ids and one undeclared id on small circuits, the test's
\* mappings and their restrictions on the four-variable circuit; and calls
\* through the facade.
EngineCircuits == {CLit, Scenario1}
InitEngine ==
    \/ \E c \in EngineCircuits :
         \E pp \in partial_maps(1 .. c.var_count + 1, PGrid),
            ee \in partial_maps(1 .. c.var_count + 1, {0, 1}) :
            AtEngineCall(c, pp, ee)
    \/ \E Dp \in SUBSET (1 .. 4), De \in SUBSET (1 .. 4) :
         AtEngineCall(Scenario2, restricted(TestP, Dp), restricted(TestE, De))
    \/ \E c \in EngineCircuits, chk \in BOOLEAN : AtCall(Some(c), None, None, chk)

\* The orders in which the elements of the finite set S can be listed.
orderings(S) ==
    {s \in [1 .. Cardinality(S) -> S] : \A i, j \in DOMAIN s : s[i] = s[j] => i = j}

\* Direct calls of the engine with a p whose keys, the variables of the
\* circuit and possibly others, were inserted in any order; and calls
\* through the facade.
OrderCircuits == {CLit, Scenario1, CAnd13, COr1And23}
InitOrder ==
    \/ \E c \in OrderCircuits :
         \E pp \in [1 .. c.var_count -> PGrid], ee \in [1 .. c.var_count -> {0, 1}],
            D \in SUBSET (1 .. c.var_count) :
            \E keys \in orderings(D) :
               /\ \A i \in DOMAIN c.nodes : is_literal(c.nodes[i]) => variable_of(c.nodes[i]) \in D
               /\ AtEngineCallOrdered(c, keys, restricted(pp, D), ee)
    \/ \E c \in OrderCircuits, chk \in BOOLEAN : AtCall(Some(c), None, None, chk)

\* The largest game size of the calls of the Shapley weight.
MaxN == 11

\* Calls w(k) of the Shapley weight for a game of n players, 0 <= k < n.
InitWeights ==
    \E n \in 1 .. MaxN : \E k \in 0 .. n - 1 :
       AtHelperCall("w", <<n, k>>, None, None, "")

\* The circuit of the call.
C == Val(sdd)
\* The target feature of the pass in progress.
cur_x == Xc[xi]

Raise(exc) == pc' = "raised" /\ err' = exc

\* (Enter_unguarded: without the test for None, reading the manager of an
\* absent circuit fails with AttributeError.)
Enter_unguarded ==
    /\ pc = "call"
    /\ IF sdd = None
       THEN Raise("AttributeError") /\ UNCHANGED <<p, e, p_keys>>
       ELSE /\ p' = build_p(C, marginals)
            /\ e' = build_e(C, entity)
            /\ p_keys' = ascending(var_ids(C))
            /\ pc' = "analyze" /\ UNCHANGED err
    /\ UNCHANGED <<oracle_trace, args, file, failure, callee, check_arg, sdd, marginals, entity, check, topo_order, var_of, X,
                   shap_scores, Xc, xi, gi, gamma, delta, passes, brute, result>>
\* Lines 227-245: reject an absent circuit, then build p and e.
Enter ==
    /\ pc = "call"
    /\ IF sdd = None
       THEN Raise("ValueError") /\ UNCHANGED <<p, e, p_keys>>
       ELSE /\ p' = build_p(C, marginals)
            /\ e' = build_e(C, entity)
            /\ p_keys' = ascending(var_ids(C))
            /\ pc' = "analyze" /\ UNCHANGED err
    /\ UNCHANGED <<oracle_trace, args, file, failure, callee, check_arg, sdd, marginals, entity, check, topo_order, var_of, X,
                   shap_scores, Xc, xi, gi, gamma, delta, passes, brute, result>>

\* Lines 62-81: the bottom-up order and var_of for every gate.
Analyze ==
    /\ pc = "analyze"
    /\ LET order == get_topological_order(C)
           an == var_of_upto(C, order, Len(order))
       IN  /\ topo_order' = order
           /\ var_of' = an.var_of
           /\ IF an.raised
              THEN Raise("NotImplementedError")
              ELSE pc' = "setup" /\ UNCHANGED err
    /\ UNCHANGED <<p_keys, oracle_trace, args, file, failure, callee, check_arg, sdd, marginals, entity, check, p, e, X, shap_scores, Xc,
                   xi, gi, gamma, delta, passes, brute, result>>

\* (Setup_circuit_keys: the score mapping keyed by the variables of the
\* circuit instead of the keys of p.)
Setup_circuit_keys ==
    /\ pc = "setup"
    /\ X' = p_keys
    /\ shap_scores' = [x \in var_of[C.root] |-> RZero]
    /\ IF Cardinality(var_of[C.root]) = 0
       THEN pc' = "returned" /\ UNCHANGED <<Xc, xi>>
       ELSE /\ Xc' = X_in_circuit(X', var_of[C.root])
            /\ xi' = 1
            /\ pc' = "loop"
    /\ UNCHANGED <<p_keys, oracle_trace, args, file, failure, callee, check_arg, sdd, marginals, entity, check, err, p, e, topo_order, var_of,
                   gi, gamma, delta, passes, brute, result>>
\* Lines 83-98: zero scores for every key of p, the reduced game size, and
\* the features that get a pass.
Setup ==
    /\ pc = "setup"
    /\ X' = p_keys
    /\ shap_scores' = [x \in DOMAIN p |-> RZero]
    /\ IF Cardinality(var_of[C.root]) = 0
       THEN pc' = "returned" /\ UNCHANGED <<Xc, xi>>
       ELSE /\ Xc' = X_in_circuit(X', var_of[C.root])
            /\ xi' = 1
            /\ pc' = "loop"
    /\ UNCHANGED <<p_keys, oracle_trace, args, file, failure, callee, check_arg, sdd, marginals, entity, check, err, p, e, topo_order, var_of,
                   gi, gamma, delta, passes, brute, result>>

\* Lines 100-102: the next feature's pass starts from empty tables; after
\* the last feature the engine returns.
\* (BeginPass_keep_tables: the tables of the pass before carried over.)
BeginPass_keep_tables ==
    /\ pc = "loop"
    /\ IF xi > Len(Xc)
       THEN pc' = "returned" /\ UNCHANGED <<gi, gamma, delta, passes>>
       ELSE /\ gamma' = gamma /\ delta' = delta
            /\ gi' = 1
            /\ passes' = Append(passes, cur_x)
            /\ pc' = "dp"
    /\ UNCHANGED <<p_keys, oracle_trace, args, file, failure, callee, check_arg, sdd, marginals, entity, check, err, p, e, topo_order, var_of,
                   X, shap_scores, Xc, xi, brute, result>>
BeginPass ==
    /\ pc = "loop"
    /\ IF xi > Len(Xc)
       THEN pc' = "returned" /\ UNCHANGED <<gi, gamma, delta, passes>>
       ELSE /\ gamma' = <<>> /\ delta' = <<>>
            /\ gi' = 1
            /\ passes' = Append(passes, cur_x)
            /\ pc' = "dp"
    /\ UNCHANGED <<p_keys, oracle_trace, args, file, failure, callee, check_arg, sdd, marginals, entity, check, err, p, e, topo_order, var_of,
                   X, shap_scores, Xc, xi, brute, result>>

\* Lines 105-197: one iteration of the bottom-up loop.
GateStep ==
    /\ pc = "dp"
    /\ LET gid == topo_order[gi]
       IN  IF gate_key_error(C, gid, cur_x, p, e)
           THEN Raise("KeyError") /\ UNCHANGED <<gamma, delta, gi>>
           ELSE LET a == gate_arrays(C, gid, cur_x, p, e, var_of, gamma, delta)
                IN  /\ gamma' = gamma @@ (gid :> a.gamma)
                    /\ delta' = delta @@ (gid :> a.delta)
                    /\ gi' = gi + 1
                    /\ pc' = IF gi = Len(topo_order) THEN "reduce" ELSE "dp"
                    /\ UNCHANGED err
    /\ UNCHANGED <<p_keys, oracle_trace, args, file, failure, callee, check_arg, sdd, marginals, entity, check, p, e, topo_order, var_of,
                   X, shap_scores, Xc, xi, passes, brute, result>>

\* Lines 199-206: the weighted reduction at the root gives the score of x.
Reduce ==
    /\ pc = "reduce"
    /\ IF cur_x \notin DOMAIN e
       THEN Raise("KeyError") /\ UNCHANGED <<shap_scores, xi>>
       ELSE /\ shap_scores' =
                 [shap_scores EXCEPT ![cur_x] =
                     shap_reduce(Cardinality(var_of[C.root]), cur_x, p, e,
                                 gamma[C.root], delta[C.root])]
            /\ xi' = xi + 1
            /\ pc' = "loop" /\ UNCHANGED err
    /\ UNCHANGED <<p_keys, oracle_trace, args, file, failure, callee, check_arg, sdd, marginals, entity, check, p, e, topo_order, var_of,
                   X, Xc, gi, gamma, delta, passes, brute, result>>

\* Lines 251-271: with check, the oracle runs and every declared variable
\* is compared within the tolerance.
Certify ==
    /\ callee = "compute_shap_scores"
    /\ pc = "returned" /\ check
    /\ LET brute_by_id == shap_exact_subset_enum(C, p, e, var_ids(C))
       IN  /\ brute' = Some(brute_by_id)
           /\ oracle_trace' = oracle_steps(ascending(var_ids(C)))
           /\ IF mismatches(C, shap_scores, brute_by_id) # {}
              THEN /\ Raise("AssertionError")
                   /\ failure' = Some(certification_error(C, shap_scores, brute_by_id))
              ELSE pc' = "certified" /\ UNCHANGED <<err, failure>>
    /\ UNCHANGED <<args, file, p_keys, callee, check_arg, sdd, marginals, entity, check, p, e,
                   topo_order, var_of, X, shap_scores, Xc, xi, gi, gamma, delta, passes, result>>

\* Line 273: the scores keyed by feature name.
Return ==
    /\ callee = "compute_shap_scores"
    /\ pc = (IF check THEN "certified" ELSE "returned")
    /\ result' = Some(named_scores(C, shap_scores))
    /\ pc' = "done"
    /\ UNCHANGED <<p_keys, oracle_trace, args, file, failure, callee, check_arg, sdd, marginals, entity, check, err, p, e, topo_order, var_of,
                   X, shap_scores, Xc, xi, gi, gamma, delta, passes, brute>>

\* Lines 202 and 303: the Shapley weight w(k) for n players.
Weigh ==
    /\ callee = "w" /\ pc = "call"
    /\ result' = Some(shap_weight(args[1], args[2]))
    /\ pc' = "done"
    /\ UNCHANGED <<sdd, marginals, entity, check, err, p, e, topo_order, var_of,
                   X, shap_scores, Xc, xi, gi, gamma, delta, passes, brute,
                   callee, check_arg, failure, p_keys, oracle_trace, args, file>>

Next ==
    \/ Enter
    \/ Analyze
    \/ Setup
    \/ BeginPass
    \/ GateStep
    \/ Reduce
    \/ Certify
    \/ Return

Spec == Init /\ [][Next]_vars
SpecSymmetry == InitSymmetry /\ [][Next]_vars
SpecFacade == InitFacade /\ [][Next]_vars
SpecScenario == InitScenario /\ [][Next]_vars
SpecContract == InitContract /\ [][Next]_vars
SpecEngine == InitEngine /\ [][Next]_vars
SpecTables == InitTables /\ [][Next]_vars
SpecWeights == InitWeights /\ [][Weigh]_vars
SpecOrder == InitOrder /\ [][Next]_vars

\* ------------------------------------------------------------------------
\* The helpers of utils/helpers.py
\* ------------------------------------------------------------------------

\* The feature names of the JSON mappings, in the order sorted() gives.
JsonNames == <<"x1", "x2", "x3">>
py_sorted(S) == SelectSeq(JsonNames, LAMBDA name : name \in S)

\* str() of a list of strings: ['x1', 'x3'].
RECURSIVE py_join(_, _)
py_join(items, sep) ==
    IF items = <<>> THEN ""
    ELSE IF Len(items) = 1 THEN items[1]
    ELSE items[1] \o sep \o py_join(Tail(items), sep)
py_str_list(names) ==
    "[" \o py_join([i \in DOMAIN names |-> "'" \o names[i] \o "'"], ", ") \o "]"

\* marginal_vars != entity_vars
\* (keys_differ_one_way: only the keys of marginals looked for in entity.)
keys_differ_one_way(marginal_vars, entity_vars) == marginal_vars \ entity_vars # {}
keys_differ(marginal_vars, entity_vars) == marginal_vars # entity_vars

\* The message of the ValueError of validate_json_compatibility.
mismatch_message(marginal_vars, entity_vars) ==
    LET missing_in_entity == marginal_vars \ entity_vars
        missing_in_marginals == entity_vars \ marginal_vars
    IN  "Variable mismatch between marginals and entity:"
        \o (IF missing_in_entity # {}
            THEN "\n  In marginals but not in entity: "
                 \o py_str_list(py_sorted(missing_in_entity))
            ELSE "")
        \o (IF missing_in_marginals # {}
            THEN "\n  In entity but not in marginals: "
                 \o py_str_list(py_sorted(missing_in_marginals))
            ELSE "")

\* Calls validate_json_compatibility(marginals, entity) with mappings over
\* any of the names.
InitJson ==
    \E m \in partial_maps({JsonNames[i] : i \in DOMAIN JsonNames}, PGrid),
       en \in partial_maps({JsonNames[i] : i \in DOMAIN JsonNames}, {0, 1}) :
       AtHelperCall("validate_json_compatibility", <<>>, Some(m), Some(en), "")

\* validate_json_compatibility as one step.
ValidateJsonCompatibility ==
    /\ callee = "validate_json_compatibility" /\ pc = "call"
    /\ LET marginal_vars == DOMAIN Val(marginals)
           entity_vars == DOMAIN Val(entity)
       IN  IF keys_differ(marginal_vars, entity_vars)
           THEN /\ Raise("ValueError")
                /\ failure' = Some(mismatch_message(marginal_vars, entity_vars))
                /\ UNCHANGED result
           ELSE /\ result' = Some(TRUE)
                /\ pc' = "done"
                /\ UNCHANGED <<err, failure>>
    /\ UNCHANGED <<sdd, marginals, entity, check, p, e, topo_order, var_of,
                   X, shap_scores, Xc, xi, gi, gamma, delta, passes, brute,
                   callee, check_arg, p_keys, oracle_trace, args, file>>

SpecJson == InitJson /\ [][ValidateJsonCompatibility]_vars

\* line.startswith(prefix)
startswith(s, prefix) ==
    Len(s) >= Len(prefix) /\ SubSeq(s, 1, Len(prefix)) = prefix

\* The lines a text file yields when iterated: each with its newline, the
\* last one without when the text does not end in one.
RECURSIVE file_lines(_)
file_lines(text) ==
    IF text = "" THEN <<>>
    ELSE IF \E i \in 1 .. Len(text) : SubSeq(text, i, i) = "\n"
         THEN LET nl == CHOOSE i \in 1 .. Len(text) :
                           /\ SubSeq(text, i, i) = "\n"
                           /\ \A j \in 1 .. i - 1 : SubSeq(text, j, j) # "\n"
              IN  <<SubSeq(text, 1, nl)>> \o file_lines(SubSeq(text, nl + 1, Len(text)))
         ELSE <<text>>

\* line.strip().split(): the maximal runs of characters that are not
\* whitespace, in order.
is_space(ch) == ch \in {" ", "\n", "\t", "\r"}
RECURSIVE py_split(_, _)
py_split(s, word) ==
    IF s = "" THEN (IF word = "" THEN <<>> ELSE <<word>>)
    ELSE IF is_space(SubSeq(s, 1, 1))
         THEN (IF word = "" THEN <<>> ELSE <<word>>) \o py_split(Tail(s), "")
         ELSE py_split(Tail(s), word \o SubSeq(s, 1, 1))

\* int(token): an optional sign and decimal digits.
is_digit(ch) == ch \in {"0", "1", "2", "3", "4", "5", "6", "7", "8", "9"}
digit_value(ch) == CHOOSE d \in 0 .. 9 : ToString(d) = ch
is_digits(s) == s # "" /\ \A i \in 1 .. Len(s) : is_digit(SubSeq(s, i, i))
RECURSIVE digits_value(_)
digits_value(s) ==
    IF s = "" THEN 0
    ELSE digits_value(SubSeq(s, 1, Len(s) - 1)) * 10 + digit_value(SubSeq(s, Len(s), Len(s)))
is_int_text(token) ==
    IF startswith(token, "-") \/ startswith(token, "+")
    THEN is_digits(Tail(token))
    ELSE is_digits(token)
int_of_text(token) ==
    IF startswith(token, "-") THEN 0 - digits_value(Tail(token))
    ELSE IF startswith(token, "+") THEN digits_value(Tail(token))
    ELSE digits_value(token)

\* str(i) of an integer.
py_str(i) == ToString(i)

\* [:-1]: the list without its last entry (the empty list stays empty).
\* (but_last_kept: the trailing 0 kept as a literal.)
but_last_kept(items) == items
but_last(items) == SubSeq(items, 1, Len(items) - 1)

\* The lines parse_cnf_file does not skip as comment or header.
clause_lines(text) ==
    SelectSeq(file_lines(text),
              LAMBDA line : ~(startswith(line, "c") \/ startswith(line, "p")))

\* list(map(int, line.strip().split()))[:-1]
clause_of_line(line) ==
    LET tokens == py_split(line, "")
    IN  but_last([i \in DOMAIN tokens |-> int_of_text(tokens[i])])

\* parse_cnf_file on a file with the given text (every token an integer).
parse_cnf_file(text) ==
    LET lines == clause_lines(text)
    IN  SelectSeq([i \in DOMAIN lines |-> clause_of_line(lines[i])],
                  LAMBDA clause : clause # <<>>)

\* Some token of a clause line of the text makes int() fail.
has_bad_token(text) ==
    \E i \in DOMAIN clause_lines(text) :
       \E j \in DOMAIN py_split(clause_lines(text)[i], "") :
          ~is_int_text(py_split(clause_lines(text)[i], "")[j])

\* max_var: the largest |lit| over all clauses, 0 when there is none.
py_abs(i) == IF i < 0 THEN 0 - i ELSE i
RECURSIVE max_abs(_, _)
max_abs(lits, acc) ==
    IF lits = <<>> THEN acc
    ELSE max_abs(Tail(lits), IF py_abs(Head(lits)) > acc THEN py_abs(Head(lits)) ELSE acc)
RECURSIVE max_var_of(_, _)
max_var_of(clauses, acc) ==
    IF clauses = <<>> THEN acc
    ELSE max_var_of(Tail(clauses), max_abs(Head(clauses), acc))

\* convert_to_sdd_format on a list of lists of integers (validate_clauses
\* accepts every such list).
convert_to_sdd_format(clauses) ==
    IF clauses = <<>> THEN "p cnf 0 0\n"
    ELSE LET num_vars == max_var_of(clauses, 0)
             num_clauses == Len(clauses)
             lines == <<"p cnf " \o py_str(num_vars) \o " " \o py_str(num_clauses)>>
                      \o [i \in DOMAIN clauses |->
                             py_join([j \in DOMAIN clauses[i] |-> py_str(clauses[i][j])], " ")
                             \o " 0"]
         IN  py_join(lines, "\n") \o "\n"

\* The largest magnitude of a literal, the largest number of literals of a
\* clause and of clauses of a list in the calls of convert_to_sdd_format.
MaxLit == 10
MaxLen == 2

\* The literals of the calls: a negative one of more than one digit and a
\* positive one of one digit.
Lits == {0 - MaxLit, 1}

\* The lists of at most n entries from S.
lists_up_to(S, n) == UNION {[1 .. k -> S] : k \in 0 .. n}
\* The lists of clauses of the calls: every list within the bounds, the
\* list of test_convert_to_sdd_format, and lists with the literal 0 and
\* with a positive literal of more than one digit.
ClauseLists ==
    lists_up_to(lists_up_to(Lits, MaxLen), MaxLen)
    \cup {<< <<1, 0 - 2, 3>>, <<0 - 1, 2>>, <<1, 2, 0 - 3>> >>,
          << <<0>> >>,
          << <<1, 0, MaxLit>>, <<0 - 1>> >>}

\* The files of test_parse_cnf_file and test_parse_cnf_file_empty, the
\* empty file, a file with a blank line and no final newline, and a file
\* with a token that is not a number.
CnfFiles ==
    {"c This is a comment\np cnf 3 3\n1 -2 3 0\n-1 2 0\n1 2 -3 0\n",
     "p cnf 0 0\n",
     "",
     "p cnf 2 2\n\n  1 +2 0  \n-2 0",
     "p cnf 1 1\n1 x 0\n"}

\* Calls convert_to_sdd_format(clauses), and calls parse_cnf_file(path) on a
\* file written by hand.
InitCnf ==
    \/ \E clauses \in ClauseLists :
          AtHelperCall("convert_to_sdd_format", <<clauses>>, None, None, "")
    \/ \E text \in CnfFiles :
          AtHelperCall("parse_cnf_file", <<>>, None, None, text)

helper_frame ==
    UNCHANGED <<sdd, marginals, entity, check, p, e, topo_order, var_of,
                X, shap_scores, Xc, xi, gi, gamma, delta, passes, brute,
                check_arg, failure, p_keys, oracle_trace>>

\* convert_to_sdd_format as one step.
ConvertToSddFormat ==
    /\ callee = "convert_to_sdd_format" /\ pc = "call"
    /\ result' = Some(convert_to_sdd_format(args[1]))
    /\ pc' = "done"
    /\ UNCHANGED <<err, callee, args, file>>
    /\ helper_frame

\* The returned text is written to a file and parse_cnf_file is called on
\* it.
WriteAndParse ==
    /\ callee = "convert_to_sdd_format" /\ pc = "done"
    /\ file' = Val(result)
    /\ callee' = "parse_cnf_file" /\ pc' = "call"
    /\ result' = None
    /\ UNCHANGED <<err, args>>
    /\ helper_frame

\* parse_cnf_file as one step.
ParseCnfFile ==
    /\ callee = "parse_cnf_file" /\ pc = "call"
    /\ IF has_bad_token(file)
       THEN Raise("ValueError") /\ UNCHANGED result
       ELSE /\ result' = Some(parse_cnf_file(file))
            /\ pc' = "done" /\ UNCHANGED err
    /\ UNCHANGED <<callee, args, file>>
    /\ helper_frame

NextCnf ==
    \/ ConvertToSddFormat
    \/ WriteAndParse
    \/ ParseCnfFile

SpecCnf == InitCnf /\ [][NextCnf]_vars

\* ------------------------------------------------------------------------
\* Properties
\* ------------------------------------------------------------------------

\* The variables that occur in a literal of the circuit, read off the gates
\* directly.
literal_variables(c) ==
    {Abs(c.nodes[i].literal) : i \in {j \in DOMAIN c.nodes : c.nodes[j].kind = "literal"}}

\* The value of the circuit on the entity en (1 when true, 0 when false).
circuit_value(c, en) == IF eval_node(c, c.root, en) THEN ROne ELSE RZero

\* C1: whenever the oracle has run, the score the DP engine gave each
\* declared variable equals the oracle's score for it (also when var(root)
\* is a strict subset of the declared variables), and the certification
\* error is never raised.
C1_EngineMatchesOracle ==
    /\ err # "AssertionError"
    /\ brute # None => \A vid \in var_ids(C) : shap_scores[vid] = Val(brute)[vid]

\* A certified call on a circuit whose support is a strict subset of the
\* declared variables, with a non-zero score.
C1_Witness ==
    /\ pc = "certified"
    /\ var_of[C.root] # var_ids(C) /\ var_of[C.root] # {}
    /\ \E vid \in var_ids(C) : Val(brute)[vid] # RZero

scenario_returned(c) ==
    /\ pc = "done"
    /\ C = c
    /\ \A vid \in var_ids(c) : p[vid] = Rat(1, 2) /\ e[vid] = 1

id_of_name(c, name) == CHOOSE i \in 1 .. c.var_count + 1 : var_id_to_name(i) = name

\* C4 as stated: every feature named in marginals or entity, or declared,
\* whose variable occurs in no literal is in the returned mapping with 0.
C4_AsStated ==
    pc = "done" =>
        \A name \in DOMAIN or_empty(marginals) \cup DOMAIN or_empty(entity)
                    \cup names_of(C) :
            id_of_name(C, name) \notin literal_variables(C) =>
                /\ name \in DOMAIN Val(result)
                /\ Val(result)[name] = RZero

\* C4 as amended: every declared feature (x1 .. x<var_count>) whose
\* variable occurs in no literal is in the returned mapping with 0.
C4_DummyInvariance ==
    pc = "done" =>
        \A name \in names_of(C) :
            id_of_name(C, name) \notin literal_variables(C) =>
                /\ name \in DOMAIN Val(result)
                /\ Val(result)[name] = RZero

\* A returned call with a declared dummy feature beside a feature scored
\* non-zero, the dummy given a marginal and an entity value of its own.
C4_Witness ==
    /\ pc = "done"
    /\ \E d \in names_of(C), s \in names_of(C) :
          /\ id_of_name(C, d) \notin literal_variables(C)
          /\ d \in DOMAIN or_empty(marginals) /\ d \in DOMAIN or_empty(entity)
          /\ or_empty(entity)[d] = 0
          /\ Val(result)[s] # RZero

\* The positions of the call at which the engine has set up its scores.
engine_started == pc \in {"loop", "dp", "reduce", "returned", "certified", "done"}

\* C5: a key of p outside var(root) has the score 0 and no pass is ever
\* started for it; for a constant circuit no pass is started at all, no
\* table is built and every key of p has the score 0.
C5_NoPassForDummies ==
    sdd # None =>
        /\ \A i \in DOMAIN passes : passes[i] \in literal_variables(C)
        /\ pc \in {"dp", "reduce"} => cur_x \in literal_variables(C)
        /\ engine_started =>
              \A x \in DOMAIN p \ literal_variables(C) : shap_scores[x] = RZero
        /\ literal_variables(C) = {} =>
              /\ passes = <<>> /\ gamma = <<>> /\ delta = <<>>
              /\ pc \notin {"loop", "dp", "reduce"}
              /\ engine_started => \A x \in DOMAIN p : shap_scores[x] = RZero

\* The engine has returned after passes for some features, with a key of p
\* that is outside var(root).
C5_Witness ==
    /\ pc = "returned"
    /\ passes # <<>>
    /\ DOMAIN p \ literal_variables(C) # {}
    /\ \E x \in DOMAIN p : shap_scores[x] # RZero

\* The permutations of the set S.
permutations(S) == {f \in [S -> S] : \A a, b \in S : f[a] = f[b] => a = b}

\* The circuit with every literal's variable renamed by pi, polarity kept.
renamed_circuit(c, pi) ==
    [c EXCEPT !.nodes =
        [i \in DOMAIN c.nodes |->
            IF c.nodes[i].kind = "literal"
            THEN [c.nodes[i] EXCEPT
                    !.literal = IF @ < 0 THEN -pi[Abs(@)] ELSE pi[@]]
            ELSE c.nodes[i]]]

\* The mapping f with every key renamed by pi.
renamed_map(f, pi) == [j \in DOMAIN f |-> f[CHOOSE i \in DOMAIN f : pi[i] = j]]

\* C6: the engine's scores for the circuit, p and e renamed by a
\* permutation of the variable ids are the engine's scores renamed the same
\* way.
C6_Symmetry ==
    pc = "returned" =>
        \A pi \in permutations(var_ids(C)) :
            LET renamed == compute_shap_algorithm(renamed_circuit(C, pi),
                                                  renamed_map(p, pi),
                                                  renamed_map(e, pi))
            IN  \A x \in var_ids(C) : renamed[pi[x]] = shap_scores[x]

\* The engine has returned pairwise different scores for three variables:
\* every renaming but the identity moves a score.
C6_Witness ==
    /\ pc = "returned"
    /\ Cardinality(var_ids(C)) = 3
    /\ \A a, b \in var_ids(C) : a # b => shap_scores[a] # shap_scores[b]

\* C7: in scenario 2 the scores of x1 and x2 are equal and the scores of x3
\* and x4 are equal.
C7_Scenario2 ==
    scenario_returned(Scenario2) =>
        /\ Val(result)["x1"] = Val(result)["x2"]
        /\ Val(result)["x3"] = Val(result)["x4"]

\* Scenario 2 called with the defaults has returned four non-zero scores.
C7_Witness ==
    /\ scenario_returned(Scenario2) /\ marginals = None /\ entity = None
    /\ Cardinality(DOMAIN Val(result)) = 4
    /\ \A name \in DOMAIN Val(result) : Val(result)[name] # RZero

with_defaults(c, given, default) ==
    [name \in names_of(c) \cup DOMAIN given |->
        IF name \in DOMAIN given THEN given[name] ELSE default]

\* C10: a declared variable that marginals does not name gets p = 1/2, one
\* that entity does not name gets e = 1; the mapping returned is the one
\* returned when the defaults are passed explicitly, and an absent mapping
\* gives what an empty mapping gives.
C10_Defaults ==
    (sdd # None /\ pc # "call") =>
        /\ \A vid \in var_ids(C) :
              /\ var_id_to_name(vid) \notin DOMAIN or_empty(marginals)
                    => p[vid] = Rat(1, 2)
              /\ var_id_to_name(vid) \notin DOMAIN or_empty(entity)
                    => e[vid] = 1
        /\ pc = "done" =>
              /\ Val(result) =
                    compute_shap_scores(
                        C,
                        Some(with_defaults(C, or_empty(marginals), Rat(1, 2))),
                        Some(with_defaults(C, or_empty(entity), 1)))
              /\ (marginals = None \/ entity = None) =>
                    Val(result) =
                        compute_shap_scores(C, Some(or_empty(marginals)),
                                            Some(or_empty(entity)))

\* A returned call with marginals absent and an entity that names only
\* some declared features, where a defaulted feature has a non-zero score.
C10_Witness ==
    /\ pc = "done"
    /\ marginals = None /\ entity # None
    /\ \E a, b \in names_of(C) :
          /\ a \notin DOMAIN Val(entity) /\ b \in DOMAIN Val(entity)
          /\ Val(entity)[b] = 0
          /\ Val(result)[a] # RZero

\* The call is a direct call of the engine.
engine_call == callee = "compute_shap_algorithm"

\* An id-keyed mapping with the default added for every variable of the
\* circuit it lacks.
with_id_defaults(c, given, default) ==
    [y \in DOMAIN given \cup literal_variables(c) |->
        IF y \in DOMAIN given THEN given[y] ELSE default]

\* p or e of the call lacks a variable that a literal of the circuit
\* refers to.
omits_circuit_variable ==
    \E y \in literal_variables(C) : y \notin DOMAIN p \/ y \notin DOMAIN e

\* C11: a direct call of the engine whose p or e omits a variable of the
\* circuit does not fail: it returns the scores it would return with
\* p = 1/2 and e = 1 substituted for the omitted variables.
C11_AsStated ==
    (engine_call /\ omits_circuit_variable) =>
        /\ pc # "raised"
        /\ pc = "returned" =>
              \A x \in DOMAIN p :
                 shap_scores[x] =
                    compute_shap_algorithm(C, with_id_defaults(C, p, DEFAULT_P),
                                           with_id_defaults(C, e, DEFAULT_E))[x]

\* |a - b| > atol + rtol * max(1, |b|), with both sides scaled by 1/atol:
\* the tolerance is then 1 + (rtol / atol) * max(1, |b|), and the quotient
\* of the scaled tolerance by a positive difference is compared with 1/atol.
over_tolerance(a, b) ==
    LET diff == RAbs(RSub(a, b))
        scaled_tol == RAdd(ROne, RMul(RInt(ATOL_DEN \div RTOL_DEN), RMax(ROne, RAbs(b))))
        quotient == Rat(scaled_tol[1] * diff[2], scaled_tol[2] * diff[1])
    IN  diff # RZero /\ quotient[1] \div quotient[2] < ATOL_DEN

\* The declared variables whose fast and brute scores differ beyond the
\* tolerance, once the oracle has run.
beyond_tolerance ==
    {v \in var_ids(C) : over_tolerance(shap_scores[v], Val(brute)[v])}

\* |fast - brute| of a declared variable.
score_gap(v) == RAbs(RSub(shap_scores[v], Val(brute)[v]))

\* C12: once the oracle has run, the call ends in the certification error
\* exactly when some declared variable's fast and brute scores differ by
\* more than atol + rtol * max(1, |brute|); the error names a mismatching
\* variable of the largest difference, carries its two values and the
\* number of mismatching variables; and a call with check that gets past
\* the certification, or returns, has no variable beyond the tolerance.
C12_Certification ==
    /\ err = "AssertionError" => (check /\ brute # None /\ pc = "raised")
    /\ failure # None => err = "AssertionError"
    /\ brute # None =>
          /\ (pc = "raised" /\ err = "AssertionError") <=> beyond_tolerance # {}
          /\ beyond_tolerance = {} => failure = None
          /\ beyond_tolerance # {} =>
                /\ failure # None
                /\ \E v \in beyond_tolerance :
                      /\ Val(failure).name = "x" \o ToString(v)
                      /\ \A w \in beyond_tolerance : RLeq(score_gap(w), score_gap(v))
                      /\ Val(failure).fast = shap_scores[v]
                      /\ Val(failure).brute = Val(brute)[v]
                /\ Val(failure).mismatches = Cardinality(beyond_tolerance)
    /\ (check /\ pc \in {"certified", "done"}) =>
          (brute # None /\ beyond_tolerance = {})
    /\ (check /\ result # None) => (brute # None /\ beyond_tolerance = {})

\* A failed certification with two mismatching variables of different
\* differences, the error naming the second of them.
C12_Witness ==
    /\ pc = "raised" /\ err = "AssertionError"
    /\ Val(failure).mismatches = 2
    /\ Val(failure).name = "x2"
    /\ score_gap(1) # score_gap(2)
    /\ score_gap(1) # RZero

\* The call has ended: it returned or it raised.
call_ended == pc \in {"done", "raised"}

\* The engine stage of the call has returned its scores: one for every key
\* of p, after a completed pass for every such key in var(root).
engine_returned ==
    /\ pc \in {"returned", "certified", "done"} \/ (pc = "raised" /\ err = "AssertionError")
    /\ DOMAIN shap_scores = DOMAIN p
    /\ Len(passes) = Cardinality(DOMAIN p \cap literal_variables(C))

\* C13 as stated: in every call of compute_shap_scores that has ended, the
\* oracle has run if and only if check is true (check being false when the
\* caller leaves it out), and it has run only after the engine returned.
C13_AsStated ==
    /\ check_arg = None => ~check
    /\ call_ended => (brute # None <=> check)
    /\ brute # None => engine_returned

\* C13: check is false when the caller leaves it out; the oracle never runs
\* in a call with check false; in a call with check true it has run by the
\* end of the call exactly when the engine returned without an error; and
\* whenever it has run, the engine had returned its scores before.
C13_OracleOptIn ==
    /\ check_arg = None => ~check
    /\ ~check => brute = None
    /\ brute # None => engine_returned
    /\ (call_ended /\ check) =>
          (brute # None <=> ~(err \in {"ValueError", "NotImplementedError", "KeyError"}))
    /\ (check /\ pc \in {"call", "analyze", "setup", "loop", "dp", "reduce", "returned"})
          => brute = None

\* A call with check passed as true in which the oracle has run and the
\* certification succeeded, after passes for two features.
C13_Witness ==
    /\ check_arg = Some(TRUE)
    /\ pc = "certified"
    /\ brute # None
    /\ Len(passes) = 2

\* C14: a call without a circuit ends in ValueError at its first step: no
\* p or e has been built (the manager was not read and no default applied),
\* no order or var_of computed, no pass started, no oracle run and nothing
\* returned; and ValueError is raised by no other call.
C14_AbsentCircuitRejectedFirst ==
    /\ (sdd = None /\ pc # "call") =>
          /\ pc = "raised" /\ err = "ValueError"
          /\ p = <<>> /\ e = <<>>
          /\ topo_order = <<>> /\ var_of = <<>>
          /\ X = <<>> /\ shap_scores = <<>> /\ passes = <<>>
          /\ gamma = <<>> /\ delta = <<>>
          /\ brute = None /\ result = None
    /\ err = "ValueError" => sdd = None

\* The call without a circuit and with certification asked for has been
\* rejected.
C14_Witness ==
    /\ sdd = None /\ check
    /\ pc = "raised" /\ err = "ValueError"

\* The gates reachable from the root through the elements of decision
\* nodes: the least set that holds the root and, with a decision node, the
\* primes and subs of its elements.
RECURSIVE reach_from(_, _)
reach_from(c, S) ==
    LET children(id) ==
            IF c.nodes[id].kind = "decision"
            THEN UNION {{c.nodes[id].elements[i][1], c.nodes[id].elements[i][2]} :
                        i \in DOMAIN c.nodes[id].elements}
            ELSE {}
        more == S \cup UNION {children(id) : id \in S}
    IN  IF more = S THEN S ELSE reach_from(c, more)
reachable_gates(c) == reach_from(c, {c.root})

\* Some reachable gate is neither a constant, a literal nor a decision node.
has_unknown_gate(c) ==
    \E id \in reachable_gates(c) :
        c.nodes[id].kind \notin {"true", "false", "literal", "decision"}

\* C15: with a reachable gate of unknown kind the call goes from the
\* analysis straight to NotImplementedError: no score mapping is created,
\* no pass is started, no table is built, the oracle does not run and
\* nothing is returned; and NotImplementedError is raised in no other call.
C15_UnknownGateKind ==
    /\ (sdd # None /\ has_unknown_gate(C)) =>
          /\ pc \in {"call", "analyze", "raised"}
          /\ pc = "raised" => err = "NotImplementedError"
          /\ shap_scores = <<>> /\ X = <<>> /\ Xc = <<>>
          /\ passes = <<>> /\ gamma = <<>> /\ delta = <<>>
          /\ brute = None /\ result = None
    /\ err = "NotImplementedError" => (sdd # None /\ has_unknown_gate(C))

\* The analysis has raised at a gate of unknown kind that is not the root,
\* after var_of was computed for the three gates before it.
C15_Witness ==
    /\ pc = "raised" /\ err = "NotImplementedError"
    /\ C.nodes[C.root].kind = "decision"
    /\ Cardinality(DOMAIN var_of) = 3

\* The variables of the literals reachable from gate id.
variables_below(c, id) ==
    {Abs(c.nodes[g].literal) : g \in {h \in reach_from(c, {id}) : c.nodes[h].kind = "literal"}}

\* Decomposability: in every element of every reachable decision node the
\* prime and the sub have no variable in common.
decomposable(c) ==
    \A id \in reachable_gates(c) :
        \A i \in DOMAIN c.nodes[id].elements :
            variables_below(c, c.nodes[id].elements[i][1])
                \cap variables_below(c, c.nodes[id].elements[i][2]) = {}

\* C16: for a circuit with an element whose prime and sub share a variable
\* the engine produces no scores; the call ends in a structural error.
C16_AsStated ==
    (sdd # None /\ ~decomposable(C)) =>
        /\ pc \notin {"returned", "certified", "done"}
        /\ result = None
        /\ pc = "raised" => err = "NotImplementedError"

\* The features for which a pass has been started, as a set.
passed_features == {passes[i] : i \in DOMAIN passes}

\* C17: a call of compute_shap_scores that returns a mapping returns it
\* without an error, with one score for every declared variable, each the
\* score the engine left for it, after a completed pass for every declared
\* variable that occurs in the circuit; a call that ends in an error
\* returns no mapping, however many passes were completed before.
C17_NoPartialResults ==
    /\ result # None =>
          /\ pc = "done" /\ err = ""
          /\ DOMAIN Val(result) = {"x" \o ToString(i) : i \in 1 .. C.var_count}
          /\ \A i \in 1 .. C.var_count :
                Val(result)["x" \o ToString(i)] = shap_scores[i]
          /\ passed_features = literal_variables(C) \cap (1 .. C.var_count)
          /\ Len(passes) = Cardinality(passed_features)
          /\ xi > Len(Xc) \/ literal_variables(C) = {}
    /\ pc = "done" => result # None
    /\ pc = "raised" => (result = None /\ err # "")

\* A call that ended in an error after the engine had completed a pass for
\* each of two features, and returned nothing.
C17_Witness ==
    /\ pc = "raised"
    /\ Len(passes) = 2 /\ xi = 3
    /\ shap_scores[1] # RZero
    /\ result = None

\* A score is a number: a rational with a positive denominator.
is_number(v) == v[1] \in Int /\ v[2] \in Nat \ {0}

\* C18: a direct call of the engine whose p and e cover the variables of
\* the circuit never raises; from the moment the score mapping exists, and
\* in particular when the engine returns, its keys are exactly the keys of
\* p (also a key of p the circuit does not mention) and every value is a
\* number: four entries for a p with four keys.
C18_EngineKeysAreKeysOfP ==
    engine_call =>
        /\ ~omits_circuit_variable => pc # "raised"
        /\ pc \in {"loop", "dp", "reduce", "returned"} =>
              /\ DOMAIN shap_scores = DOMAIN p
              /\ Cardinality(DOMAIN shap_scores) = Cardinality(DOMAIN p)
              /\ \A x \in DOMAIN shap_scores : is_number(shap_scores[x])

\* The engine has returned from the test's call on the four-variable
\* circuit with four scores.
C18_Witness ==
    /\ engine_call /\ pc = "returned"
    /\ C = Scenario2 /\ p = TestP /\ e = TestE
    /\ Cardinality(DOMAIN shap_scores) = 4
    /\ shap_scores[1] = Rat(497, 7500)
    /\ shap_scores[3] = Rat(507, 1250)

\* The analysis of the call has computed the order.
order_computed == sdd # None /\ pc \notin {"call", "analyze"}

\* The positions of gate g in the order.
positions_of(g) == {i \in DOMAIN topo_order : topo_order[i] = g}

\* The number of (decision node, element, prime or sub) places that refer
\* to gate g.
parents_of(c, g) ==
    Cardinality({<<id, i, k>> \in reachable_gates(c) \X (1 .. Len(c.nodes)) \X {1, 2} :
                    /\ i \in DOMAIN c.nodes[id].elements
                    /\ c.nodes[id].elements[i][k] = g})

\* C19: the order holds every gate reachable from the root exactly once and
\* nothing else, the prime and the sub of every element of a gate stand
\* before the gate, and the root stands last.
C19_TopologicalOrder ==
    order_computed =>
        /\ {topo_order[i] : i \in DOMAIN topo_order} = reachable_gates(C)
        /\ \A g \in reachable_gates(C) : Cardinality(positions_of(g)) = 1
        /\ \A i \in DOMAIN topo_order :
              \A k \in DOMAIN C.nodes[topo_order[i]].elements :
                 /\ \E j \in 1 .. i - 1 :
                       topo_order[j] = C.nodes[topo_order[i]].elements[k][1]
                 /\ \E j \in 1 .. i - 1 :
                       topo_order[j] = C.nodes[topo_order[i]].elements[k][2]
        /\ topo_order[Len(topo_order)] = C.root

\* The order of a circuit in which a decision node is the sub of two
\* elements.
C19_Witness ==
    /\ order_computed
    /\ \E g \in reachable_gates(C) :
          /\ C.nodes[g].kind = "decision"
          /\ parents_of(C, g) = 2
          /\ Cardinality(positions_of(g)) = 1

\* C20: after the analysis var_of has an entry for exactly the reachable
\* gates; the entry is the set of variables of the literals reachable from
\* the gate: empty for a constant, the one variable for a literal of either
\* sign, the union of the entries of all primes and subs for a decision
\* node; and every prime and sub was given its entry at an earlier position
\* of the order than the gate that reads it.
C20_VarOf ==
    (order_computed /\ pc # "raised") =>
        /\ DOMAIN var_of = reachable_gates(C)
        /\ \A g \in reachable_gates(C) :
              /\ var_of[g] = variables_below(C, g)
              /\ C.nodes[g].kind \in {"true", "false"} => var_of[g] = {}
              /\ C.nodes[g].kind = "literal" =>
                    var_of[g] = {IF C.nodes[g].literal < 0
                                 THEN 0 - C.nodes[g].literal ELSE C.nodes[g].literal}
              /\ C.nodes[g].kind = "decision" =>
                    var_of[g] = UNION {var_of[C.nodes[g].elements[k][j]] :
                                          k \in DOMAIN C.nodes[g].elements, j \in {1, 2}}
        /\ \A i \in DOMAIN topo_order :
              \A k \in DOMAIN C.nodes[topo_order[i]].elements, j \in {1, 2} :
                 \E h \in 1 .. i - 1 :
                    topo_order[h] = C.nodes[topo_order[i]].elements[k][j]

\* The analysis of a circuit with a constant, a negative literal and a
\* decision node that has three variables, one of them only through a sub.
C20_Witness ==
    /\ order_computed /\ pc = "setup"
    /\ \E g \in DOMAIN var_of : C.nodes[g].kind = "true" /\ var_of[g] = {}
    /\ \E g \in DOMAIN var_of : C.nodes[g].literal = -2 /\ var_of[g] = {2}
    /\ \E g \in DOMAIN var_of :
          /\ Cardinality(var_of[g]) = 3
          /\ \E k \in DOMAIN C.nodes[g].elements :
                /\ Cardinality(var_of[C.nodes[g].elements[k][1]]) = 1
                /\ Cardinality(var_of[C.nodes[g].elements[k][2]]) = 2

\* Determinism: no assignment makes two elements of a reachable decision
\* node true.
deterministic(c) ==
    \A id \in reachable_gates(c) :
        \A i, j \in DOMAIN c.nodes[id].elements :
            i < j =>
               \A a \in [1 .. c.var_count -> {0, 1}] :
                  ~(/\ eval_node(c, c.nodes[id].elements[i][1], a)
                    /\ eval_node(c, c.nodes[id].elements[i][2], a)
                    /\ eval_node(c, c.nodes[id].elements[j][1], a)
                    /\ eval_node(c, c.nodes[id].elements[j][2], a))

\* The probability that gate g is true when the variables in S have the
\* entity's values, x has the value xval and every other variable i is 1
\* with probability pr[i], independently.
probability_true(c, g, pr, en, S, x, xval) ==
    LET V == variables_below(c, g) \cup {x}
        agree == {a \in [V -> {0, 1}] :
                     /\ a[x] = xval
                     /\ \A i \in S : a[i] = en[i]
                     /\ eval_node(c, g, a)}
    IN  RSumSet([a \in agree |->
                    RProdSet([i \in V \ (S \cup {x}) |->
                                 IF a[i] = 1 THEN pr[i] ELSE RSub(ROne, pr[i])],
                             V \ (S \cup {x}))],
                agree)

\* The sum of probability_true over the subsets S of var(g) minus {x} of
\* each size l.
subset_sums(c, g, pr, en, x, xval) ==
    LET V == variables_below(c, g) \ {x}
    IN  [l \in 0 .. Cardinality(V) |->
            RSumSet([S \in {T \in SUBSET V : Cardinality(T) = l} |->
                        probability_true(c, g, pr, en, S, x, xval)],
                    {T \in SUBSET V : Cardinality(T) = l})]

\* A pass is in progress and topo_order[gi - 1] is the gate processed last.
gate_processed == pc \in {"dp", "reduce"} /\ gi > 1
last_gate == topo_order[gi - 1]

\* C21: in a decomposable, deterministic circuit, for every target x and
\* every gate g, the array gamma[g] written when g is processed holds at l
\* the sum over the size-l subsets S of var(g) minus {x} of the probability
\* that g is true with S fixed to the entity, x fixed to 1 and the rest
\* drawn from p; delta[g] holds the same sums with x fixed to 0.
C21_TablesAreSubsetSums ==
    (gate_processed /\ decomposable(C) /\ deterministic(C)) =>
        /\ gamma[last_gate] = subset_sums(C, last_gate, p, e, cur_x, 1)
        /\ delta[last_gate] = subset_sums(C, last_gate, p, e, cur_x, 0)

\* The root of x1 OR (x2 AND x3) has been processed for the target x2: its
\* first element omits two variables of the gate, and gamma and delta
\* differ at one fixed variable.
C21_Witness ==
    /\ pc = "reduce" /\ C = COr1And23 /\ cur_x = 2
    /\ DOMAIN gamma[C.root] = 0 .. 2
    /\ gamma[C.root][1] # delta[C.root][1]
    /\ gamma[C.root] = subset_sums(C, C.root, p, e, 2, 1)

\* The number of variables of gate g other than x, by var_of.
scope_size(g, x) == Cardinality(var_of[g] \ {x})

\* C22: during a pass for x the tables hold exactly the gates processed so
\* far, gamma[g] and delta[g] have the indices 0 .. |var(g) minus {x}|;
\* for every element of the gate processed last, every index the AND phase
\* reads of the prime's and of the sub's array is an index of that array;
\* and at the reduction the root's arrays have exactly the indices
\* 0 .. n - 1 that it reads, n the number of variables of the root.
C22_ArrayLengths ==
    (sdd # None /\ pc \in {"dp", "reduce"}) =>
        /\ DOMAIN gamma = {topo_order[i] : i \in 1 .. gi - 1}
        /\ DOMAIN delta = DOMAIN gamma
        /\ \A g \in DOMAIN gamma :
              /\ DOMAIN gamma[g] = 0 .. scope_size(g, cur_x)
              /\ DOMAIN delta[g] = 0 .. scope_size(g, cur_x)
        /\ gi > 1 =>
              \A k \in DOMAIN C.nodes[last_gate].elements :
                 LET prime == C.nodes[last_gate].elements[k][1]
                     sub == C.nodes[last_gate].elements[k][2]
                     child_len == Cardinality((var_of[prime] \cup var_of[sub]) \ {cur_x})
                 IN  \A ell_child \in 0 .. child_len, ell_p \in 0 .. scope_size(prime, cur_x) :
                        /\ ell_p \in DOMAIN gamma[prime] /\ ell_p \in DOMAIN delta[prime]
                        /\ (0 <= ell_child - ell_p /\ ell_child - ell_p <= scope_size(sub, cur_x))
                              => /\ ell_child - ell_p \in DOMAIN gamma[sub]
                                 /\ ell_child - ell_p \in DOMAIN delta[sub]
        /\ pc = "reduce" =>
              /\ DOMAIN gamma[C.root] = 0 .. Cardinality(var_of[C.root]) - 1
              /\ DOMAIN delta[C.root] = 0 .. Cardinality(var_of[C.root]) - 1

\* The reduction for a target of a three-variable root whose elements have
\* decision nodes as primes: the root's arrays have the indices 0, 1, 2.
C22_Witness ==
    /\ pc = "reduce"
    /\ Cardinality(var_of[C.root]) = 3
    /\ DOMAIN gamma[C.root] = {0, 1, 2}
    /\ \E k \in DOMAIN C.nodes[C.root].elements :
          /\ C.nodes[C.nodes[C.root].elements[k][1]].kind = "decision"
          /\ DOMAIN gamma[C.nodes[C.root].elements[k][1]] = {0, 1}

\* The one-entry array [v] and the two-entry array [v, w].
array1(v) == [ell \in {0} |-> v]
array2(v, w) == [ell \in {0, 1} |-> IF ell = 0 THEN v ELSE w]

\* C23: the arrays of a leaf processed for the target x: [a] twice for a
\* constant of value a; gamma = [1], delta = [0] for the literal x and
\* gamma = [0], delta = [1] for NOT x; for a literal on another variable y
\* both are [p[y], e[y]] when positive and [1 - p[y], 1 - e[y]] when
\* negated.
C23_LeafBaseCases ==
    (sdd # None /\ gate_processed) =>
        LET g == C.nodes[last_gate]
            y == IF g.literal < 0 THEN 0 - g.literal ELSE g.literal
        IN  /\ g.kind = "true" =>
                  gamma[last_gate] = array1(<<1, 1>>) /\ delta[last_gate] = array1(<<1, 1>>)
            /\ g.kind = "false" =>
                  gamma[last_gate] = array1(<<0, 1>>) /\ delta[last_gate] = array1(<<0, 1>>)
            /\ (g.kind = "literal" /\ y = cur_x /\ g.literal > 0) =>
                  gamma[last_gate] = array1(<<1, 1>>) /\ delta[last_gate] = array1(<<0, 1>>)
            /\ (g.kind = "literal" /\ y = cur_x /\ g.literal < 0) =>
                  gamma[last_gate] = array1(<<0, 1>>) /\ delta[last_gate] = array1(<<1, 1>>)
            /\ (g.kind = "literal" /\ y # cur_x /\ g.literal > 0) =>
                  /\ gamma[last_gate] = array2(p[y], <<e[y], 1>>)
                  /\ delta[last_gate] = array2(p[y], <<e[y], 1>>)
            /\ (g.kind = "literal" /\ y # cur_x /\ g.literal < 0) =>
                  /\ gamma[last_gate] = array2(RSub(<<1, 1>>, p[y]), <<1 - e[y], 1>>)
                  /\ delta[last_gate] = array2(RSub(<<1, 1>>, p[y]), <<1 - e[y], 1>>)

\* A negated literal on a variable other than the target has been
\* processed, with p = 1/2 and e = 0 for its variable.
C23_Witness ==
    /\ gate_processed
    /\ C.nodes[last_gate].kind = "literal" /\ C.nodes[last_gate].literal < 0
    /\ 0 - C.nodes[last_gate].literal # cur_x
    /\ p[0 - C.nodes[last_gate].literal] = <<1, 2>>
    /\ e[0 - C.nodes[last_gate].literal] = 0
    /\ gamma[last_gate] = array2(<<1, 2>>, <<1, 1>>)

\* n!
RECURSIVE factorial(_)
factorial(n) == IF n = 0 THEN 1 ELSE n * factorial(n - 1)

\* C24: the weight computed for n players and k of the others equals
\* k! (n - k - 1)! / n!, in particular 1 for n = 1; and the weights of all
\* subsets of the other n - 1 players, C(n - 1, j) subsets of each size j
\* with the weight of size j, sum to 1.
C24_ShapleyWeight ==
    (callee = "w" /\ pc = "done") =>
        LET n == args[1]
            k == args[2]
        IN  /\ Val(result) = Rat(factorial(k) * factorial(n - k - 1), factorial(n))
            /\ n = 1 => Val(result) = <<1, 1>>
            /\ RSum([j \in 0 .. n - 1 |->
                        RMul(<<comb(n - 1, j), 1>>, shap_weight(n, j))],
                    0, n - 1) = <<1, 1>>

\* The weight of a coalition of 3 of the other 6 players in a game of 7
\* has been computed: 3! 3! / 7! = 1/140.
C24_Witness ==
    /\ callee = "w" /\ pc = "done"
    /\ args = <<7, 3>>
    /\ Val(result) = <<1, 140>>

\* The keys of p for which a pass has been completed.
scored_features == {Xc[i] : i \in 1 .. xi - 1}

\* What a step taken inside the loop over the features leaves alone, and
\* the tables a pass starts with.
pass_step_frame ==
    pc \in {"loop", "dp", "reduce"} =>
        /\ UNCHANGED <<sdd, topo_order, var_of, p, e>>
        /\ (pc = "loop" /\ pc' = "dp") => (gamma' = <<>> /\ delta' = <<>>)

\* C25: a step of a pass changes neither the circuit, nor the order, nor
\* var_of, nor p, nor e, and a pass starts with empty gamma and delta;
\* and the score left by a completed pass for x is the score of x in the
\* call that scores the variables of the circuit only, in increasing
\* order: it depends neither on the order of the keys of p nor on the
\* other keys p has.
C25_PassesAreIndependent ==
    /\ [][pass_step_frame]_vars
    /\ []((sdd # None /\ pc \in {"loop", "returned"}) =>
             \A x \in scored_features :
                shap_scores[x] =
                   compute_shap_algorithm(C, restricted(p, literal_variables(C)), e)[x])

\* The engine has returned from a call whose p lists three keys in the
\* order 3, 1, 2, the second variable outside the circuit, after the pass
\* for 3 and then the pass for 1, both with a non-zero score.
C25_Witness ==
    /\ engine_call /\ pc = "returned"
    /\ p_keys = <<3, 1, 2>>
    /\ passes = <<3, 1>>
    /\ shap_scores[3] # RZero /\ shap_scores[1] # RZero

\* The assignments of the variables in ids that agree with the entity ee on
\* the variables in S.
agreeing(ids, ee, S) ==
    {a \in [ids -> {0, 1}] : \A i \in S : a[i] = ee[i]}

\* E(C = 1 | Z_S = e_S) written out: the probability, under the product of
\* the marginals of the variables outside S, of the assignments that agree
\* with e on S and satisfy the circuit.
conditional_expectation(c, ids, pp, ee, S) ==
    LET sat == {a \in agreeing(ids, ee, S) : eval_node(c, c.root, a)}
    IN  RSumSet([a \in sat |->
                    RProdSet([i \in ids \ S |->
                                 IF a[i] = 1 THEN pp[i] ELSE RSub(ROne, pp[i])],
                             ids \ S)],
                sat)

\* The Shapley formula for feature x over the subsets of the other
\* variables, with the weight k!(n-k-1)!/n!.
subset_formula(c, ids, pp, ee, x) ==
    LET count == Cardinality(ids)
    IN  RSumSet([S \in SUBSET (ids \ {x}) |->
                    RMul(Rat(factorial(Cardinality(S)) * factorial(count - Cardinality(S) - 1),
                             factorial(count)),
                         RSub(conditional_expectation(c, ids, pp, ee, S \cup {x}),
                              conditional_expectation(c, ids, pp, ee, S)))],
                SUBSET (ids \ {x}))

\* The positions of the oracle's steps that evaluate v.
v_steps == {i \in DOMAIN oracle_trace : oracle_trace[i][1] = "v"}

\* C26: once the oracle has run, its steps are one evaluation of v(S) for
\* each of the 2^n subsets S of the variable list, each subset exactly
\* once, all of them before the first feature sum and one sum per feature
\* after them; and each feature's value is the sum over the subsets S of
\* the other variables of w(|S|) * (v(S + {x}) - v(S)), where v(S) is the
\* weighted model count with the variables of S fixed to the entity and
\* the others weighted p / 1 - p, a function of S alone.
C26_OracleCache ==
    brute # None =>
        LET ids == var_ids(C)
            count == Cardinality(ids)
        IN  /\ Len(oracle_trace) = 2 ^ count + count
            /\ v_steps = 1 .. 2 ^ count
            /\ \A S \in SUBSET ids :
                  Cardinality({i \in v_steps : oracle_trace[i][2] = S}) = 1
            /\ \A x \in ids :
                  Cardinality({i \in DOMAIN oracle_trace \ v_steps :
                                  oracle_trace[i][2] = x}) = 1
            /\ \A x \in ids :
                  Val(brute)[x] = subset_formula(C, ids, p, e, x)
C26_Witness ==
    /\ brute # None
    /\ Cardinality(var_ids(C)) = 3
    /\ Len(oracle_trace) = 11
    /\ \E x \in var_ids(C) : e[x] = 0 /\ Val(brute)[x] # RZero
    /\ \E x \in var_ids(C) : e[x] = 1 /\ Val(brute)[x] # RZero

\* The scope of element k of gate g without x (Vc, line 158), and the
\* number of variables of g without x that the element omits (line 183).
element_scope(g, k, x) ==
    (var_of[C.nodes[g].elements[k][1]] \cup var_of[C.nodes[g].elements[k][2]]) \ {x}
missing_of(g, k, x) == scope_size(g, x) - Cardinality(element_scope(g, k, x))

\* The sum of the entries of the array the AND phase gives element k of
\* gate g from the table tab, for the target x.
element_mass(g, k, x, tab) ==
    LET prime == C.nodes[g].elements[k][1]
        sub == C.nodes[g].elements[k][2]
        child_len == Cardinality(element_scope(g, k, x))
    IN  RSum(and_phase(tab[prime], tab[sub], scope_size(prime, x), scope_size(sub, x),
                       child_len),
             0, child_len)

\* The sum over the elements of gate g of 2^missing times the element's
\* mass: what the entries of the gate's array add up to when every lift
\* ell_child -> ell_child + dist, 0 <= dist <= missing, is counted.
lifted_mass(g, x, tab) ==
    RSumSet([k \in DOMAIN C.nodes[g].elements |->
                RMul(RInt(2 ^ missing_of(g, k, x)), element_mass(g, k, x, tab))],
            DOMAIN C.nodes[g].elements)

\* C27: for the decision gate processed last in a pass for x, on any
\* circuit: every element's missing = |var(g) minus {x}| - |element scope|
\* is at least 0; every lift the range guard admits (0 <= dist <= missing)
\* from an index of the element's array lands on an index of the gate's
\* array, so the binomial coefficient is evaluated only inside its domain;
\* and no contribution is dropped: the entries of gamma[g] and of delta[g]
\* add up to the sum over the elements of 2^missing times the element's
\* entries.
C27_OrPhaseInRange ==
    (sdd # None /\ gate_processed /\ C.nodes[last_gate].kind = "decision") =>
        /\ \A k \in DOMAIN C.nodes[last_gate].elements :
              /\ missing_of(last_gate, k, cur_x) >= 0
              /\ \A ell_child \in 0 .. Cardinality(element_scope(last_gate, k, cur_x)),
                    dist \in 0 .. missing_of(last_gate, k, cur_x) :
                    /\ ell_child + dist \in DOMAIN gamma[last_gate]
                    /\ ell_child + dist \in DOMAIN delta[last_gate]
        /\ RSum(gamma[last_gate], 0, scope_size(last_gate, cur_x))
              = lifted_mass(last_gate, cur_x, gamma)
        /\ RSum(delta[last_gate], 0, scope_size(last_gate, cur_x))
              = lifted_mass(last_gate, cur_x, delta)

\* A root processed for a target where one element omits two variables of
\* the gate and another omits none, with a non-zero entry at the largest
\* index, which only lifted contributions and full elements reach.
C27_Witness ==
    /\ sdd # None /\ gate_processed /\ last_gate = C.root
    /\ C.nodes[C.root].kind = "decision"
    /\ \E k \in DOMAIN C.nodes[C.root].elements : missing_of(C.root, k, cur_x) = 2
    /\ \E k \in DOMAIN C.nodes[C.root].elements : missing_of(C.root, k, cur_x) = 0
    /\ gamma[C.root][scope_size(C.root, cur_x)] # RZero
    /\ gamma[C.root] # delta[C.root]

\* C28: during a pass for the target x, for every gate g processed so far
\* whose sub-circuit does not mention x, gamma[g] and delta[g] are the same
\* array; gamma and delta differ only at gates whose sub-circuit mentions x.
C28_TablesAgreeAwayFromTarget ==
    (sdd # None /\ pc \in {"dp", "reduce"}) =>
        \A g \in DOMAIN gamma :
           /\ var_of[g] = variables_below(C, g)
           /\ cur_x \notin variables_below(C, g) => gamma[g] = delta[g]
           /\ gamma[g] # delta[g] => cur_x \in variables_below(C, g)

\* At the reduction a decision gate over two variables other than the
\* target has equal arrays that are not all zero, and the root, which
\* mentions the target, has different ones.
C28_Witness ==
    /\ sdd # None /\ pc = "reduce"
    /\ gamma[C.root] # delta[C.root]
    /\ \E g \in DOMAIN gamma :
          /\ C.nodes[g].kind = "decision"
          /\ cur_x \notin var_of[g]
          /\ Cardinality(var_of[g]) = 2
          /\ gamma[g] = delta[g]
          /\ \E ell \in DOMAIN gamma[g] : gamma[g][ell] # RZero

\* The text s contains the text part.
contains(s, part) ==
    \E i \in 1 .. Len(s) - Len(part) + 1 : SubSeq(s, i, i + Len(part) - 1) = part

\* A step that leaves both mappings of the caller as they were.
mappings_kept == UNCHANGED <<marginals, entity>>

\* C29: a call validate_json_compatibility(marginals, entity) ends by
\* returning True when the two mappings have the same key set and only
\* then; otherwise it ends with a ValueError whose message contains
\* "Variable mismatch"; and no step of it changes either mapping.
C29_JsonCompatibility ==
    /\ [][mappings_kept]_vars
    /\ []((callee = "validate_json_compatibility" /\ pc # "call") =>
             IF DOMAIN Val(marginals) = DOMAIN Val(entity)
             THEN pc = "done" /\ result = Some(TRUE) /\ err = ""
             ELSE /\ pc = "raised" /\ err = "ValueError" /\ result = None
                  /\ contains(Val(failure), "Variable mismatch"))

\* The call of the test: marginals name x1, x2, x3, the entity x1 and x2.
C29_Witness ==
    /\ callee = "validate_json_compatibility" /\ pc = "raised"
    /\ DOMAIN Val(marginals) = {"x1", "x2", "x3"}
    /\ DOMAIN Val(entity) = {"x1", "x2"}
    /\ err = "ValueError"
    /\ Val(failure) = "Variable mismatch between marginals and entity:"
                         \o "\n  In marginals but not in entity: ['x3']"

\* The text s ends with the text suffix.
endswith(s, suffix) ==
    Len(s) >= Len(suffix) /\ SubSeq(s, Len(s) - Len(suffix) + 1, Len(s)) = suffix

\* The largest |literal| of a list of clauses with at least one literal.
largest_literal(clauses) ==
    LET mags == UNION {{py_abs(clauses[i][j]) : j \in DOMAIN clauses[i]} : i \in DOMAIN clauses}
    IN  CHOOSE a \in mags : \A b \in mags : b <= a

\* The clauses are a non-empty list of non-empty clauses.
proper_clauses(clauses) ==
    clauses # <<>> /\ \A i \in DOMAIN clauses : clauses[i] # <<>>

\* C30: for a non-empty list of non-empty integer clauses, the text
\* convert_to_sdd_format returns has the first line
\* "p cnf <largest |literal|> <number of clauses>" and after it one line
\* per clause, each ending in " 0"; parse_cnf_file on a file with that text
\* returns the original list of clauses. The empty list converts to
\* "p cnf 0 0\n", which parses back to the empty list.
C30_DimacsRoundTrip ==
    /\ (callee = "convert_to_sdd_format" /\ pc = "done") =>
          /\ args[1] = <<>> => Val(result) = "p cnf 0 0\n"
          /\ proper_clauses(args[1]) =>
                LET lines == file_lines(Val(result))
                IN  /\ Len(lines) = 1 + Len(args[1])
                    /\ lines[1] = "p cnf " \o ToString(largest_literal(args[1]))
                                     \o " " \o ToString(Len(args[1])) \o "\n"
                    /\ \A i \in 2 .. Len(lines) : endswith(lines[i], " 0\n")
    /\ (/\ callee = "parse_cnf_file" /\ args # <<>> /\ pc # "call"
        /\ (args[1] = <<>> \/ proper_clauses(args[1]))) =>
          /\ pc = "done"
          /\ Val(result) = args[1]

\* Two clauses, one with a negative literal of two digits, have been
\* written as "p cnf 10 2\n-10 1 0\n1 0\n" and parsed back.
C30_Witness ==
    /\ callee = "parse_cnf_file" /\ pc = "done"
    /\ args = <<(<< <<0 - 10, 1>>, <<1>> >>)>>
    /\ file = "p cnf 10 2\n-10 1 0\n1 0\n"
    /\ Val(result) = << <<0 - 10, 1>>, <<1>> >>

====
